---- MODULE Spec2Model ----
(***************************************************************************)
(* A model of the attendance backend (Django/DRF): the geofenced QR        *)
(* check-in/check-out protocol of AttendanceMarkSerializer, the offline    *)
(* attendance approval of AdminOfflineDecisionSerializer, and the e-mail   *)
(* one-time-password issuance and verification of RegisterSerializer,      *)
(* ResendOtpSerializer and VerifyOtpSerializer (attendence/serializers.py  *)
(* as imported by views.py, file serializers_v3.py of the sources).        *)
(*                                                                         *)
(* Numbers.  Instants are whole seconds.  Coordinates are whole multiples  *)
(* of 1e-4 degree (28.6005 degrees is 286005).  A distance in metres, a    *)
(* float in the code, is a whole number of millimetres here.  A nullable   *)
(* column that holds None holds NULL.                                      *)
(***************************************************************************)
EXTENDS Integers, Sequences, FiniteSets, TLC

NULL == 0 - 1

(***************************************************************************)
(* Bounds of the model.                                                    *)
(***************************************************************************)
\* how many times the clock may advance in the attendance specifications
MaxClockAtt == 1
\* how many times the clock may advance in the throttle specification
MaxClockOtp == 7
\* how many times the clock may advance in the verification specification
MaxClockVerify == 3
\* how many times the clock may advance in the account specification
MaxClockAccount == 1

(***************************************************************************)
(* Program constants.                                                      *)
(***************************************************************************)
\* settings.OTP_EXPIRY_MINUTES
OTP_EXPIRY_MINUTES == 10
\* settings.OTP_RESEND_COOLDOWN_SECONDS
OTP_RESEND_COOLDOWN_SECONDS == 60
\* settings.OTP_MAX_SEND_PER_HOUR
OTP_MAX_SEND_PER_HOUR == 5
\* haversine_m: R = 6371000.0, the Earth's radius in metres
R == 6371000

SecondsPerHour == 60 * 60
SecondsPerDay == 24 * SecondsPerHour

(***************************************************************************)
(* The geo distance calculator.                                            *)
(***************************************************************************)
RECURSIVE IsqrtIter(_, _, _)
IsqrtIter(n, lo, hi) ==
    IF lo >= hi THEN lo
    ELSE LET mid == (lo + hi + 1) \div 2
         IN  IF mid * mid <= n THEN IsqrtIter(n, mid, hi)
                               ELSE IsqrtIter(n, lo, mid - 1)

\* math.sqrt on a whole number: the integer part of the square root
Isqrt(n) == IsqrtIter(n, 0, 46340)

\* math.radians of a latitude given in 1e-4 degree: radians, scaled by 10^4
RadE4(deg) == (deg * 1745) \div 100000

\* math.cos of an angle in radians scaled by 10^4: the cosine scaled by 10^4
\* (the series 1 - x^2/2 + x^4/24 - x^6/720)
CosE4(x) ==
    LET x2 == (x * x) \div 10000
        x4 == (x2 * x2) \div 10000
        x6 == (x4 * x2) \div 10000
    IN  10000 - (x2 \div 2) + (x4 \div 24) - (x6 \div 720)

\* a distance that counts the latitude difference northward only
HaversineNorthward(lat1, lon1, lat2, lon2) ==
    LET phi1 == RadE4(lat1)
        phi2 == RadE4(lat2)
        dphi == IF lat2 > lat1 THEN lat2 - lat1 ELSE 0
        dlambda == lon2 - lon1
        a == (dphi * dphi) * 10000
             + ((CosE4(phi1) * CosE4(phi2)) \div 10000) * (dlambda * dlambda)
        c == (Isqrt(a) * 17453) \div 1000
    IN  ((R \div 1000) * c) \div 1000

\* haversine_m(lat1, lon1, lat2, lon2): the great-circle distance, in
\* millimetres, of two positions given in 1e-4 degree.  The positions of
\* the model lie within 0.01 degree of each other, where sin x = x and
\* atan2(sqrt a, sqrt(1 - a)) = sqrt a to less than a millimetre; a is kept
\* in units of (1e-4 degree / 2)^2 scaled by 10^4, c in nanoradians.
haversine_m(lat1, lon1, lat2, lon2) ==
    LET phi1 == RadE4(lat1)
        phi2 == RadE4(lat2)
        dphi == lat2 - lat1
        dlambda == lon2 - lon1
        a == (dphi * dphi) * 10000
             + ((CosE4(phi1) * CosE4(phi2)) \div 10000) * (dlambda * dlambda)
        c == (Isqrt(a) * 17453) \div 1000
    IN  ((R \div 1000) * c) \div 1000

\* int(dist_m): the whole metres of a distance
IntMetres(dist) == dist \div 1000

(***************************************************************************)
(* The sets the requests draw their inputs from.                           *)
(***************************************************************************)
\* "u1" is verified and active, "u2" is not verified, "u3" is not active
Users == {"u1", "u2", "u3"}
Procs == {"p1", "p2"}
Offices == {"o1", "o2", "o3", "o4"}
\* "t9" is the token of no OfficeQR
Tokens == {"t1", "t2", "t3", "t4", "t9"}
Actions == {"CHECKIN", "CHECKOUT"}

\* GPS fixes a phone submits: lat, lng, accuracy_m (accuracy_m is optional).
\* Office o1 is at (28.6000, 77.2000) with a radius of 100 m, office o2 at
\* (28.6050, 77.2000) with a radius of 0 m.
FixNear == [lat |-> 286005, lng |-> 772000, accuracy_m |-> 5]
FixEdge == [lat |-> 286009, lng |-> 772000, accuracy_m |-> 5]
FixFar == [lat |-> 286050, lng |-> 772000, accuracy_m |-> NULL]
Fixes == {FixNear, FixEdge, FixFar}

\* where the offices stand: office -> latitude, longitude (1e-4 degree)
Sites ==
    [o \in Offices |->
       [latitude |-> IF o = "o2" THEN 286050 ELSE 286000,
        longitude |-> 772000]]

\* haversine_m over the positions of the model, computed once
Distances ==
    [q \in ({f.lat : f \in Fixes} \X {f.lng : f \in Fixes}
               \X {Sites[o].latitude : o \in Offices}
               \X {Sites[o].longitude : o \in Offices})
       |-> haversine_m(q[1], q[2], q[3], q[4])]

\* the Mark requests the phones send, less the action: user, qr_token, fix
MarkSamples ==
    { <<"u1", "t1", FixNear>>,   \* 55.6 m from o1: accepted
      <<"u1", "t2", FixFar>>,    \* 0 m from o2, whose radius is 0: accepted
      <<"u1", "t1", FixEdge>>,   \* 100.07 m from o1
      <<"u1", "t1", FixFar>>,    \* 556 m from o1
      <<"u1", "t2", FixNear>>,   \* 500 m from o2
      <<"u1", "t3", FixNear>>,   \* the QR of an inactive office
      <<"u1", "t4", FixNear>>,   \* an inactive QR
      <<"u1", "t9", FixNear>>,   \* no QR
      <<"u2", "t1", FixNear>>,   \* not verified
      <<"u3", "t1", FixNear>>,   \* not active
      <<"u2", "t9", FixFar>>,
      <<"u3", "t3", FixEdge>> }

VARIABLES
    now,         \* timezone.now(): the instant, in seconds
    clock,       \* how many times the clock has advanced
    users,       \* table User: email -> row
    profiles,    \* table EmployeeProfile: email -> phone, or NoProfile
    otps,        \* table EmailOTP: a set of rows
    outbox,      \* the e-mails SMTP accepted: a set of messages
    resp,        \* the response of the last auth request served
    issue,       \* the issuance whose transaction is open (serializers.py)
    offices,     \* table OfficeLocation: office -> row
    qrs,         \* table OfficeQR: office -> row (one-to-one)
    report,      \* the response of the last admin report or measurement
    attendance,  \* table Attendance: a set of rows
    mark,        \* the Mark request each worker is serving
    reply,       \* the response the last step sent to a Mark request, if any
    offline,     \* table OfflineAttendanceRequest: a set of rows
    decide       \* the offline-attendance decision the admin worker is serving

vars == <<now, clock, users, profiles, otps, outbox, resp, issue, offices,
          qrs, report, attendance, mark, reply, offline, decide>>

authVars == <<users, profiles, otps, outbox, resp, issue>>
registryVars == <<offices, qrs, report>>

\* no report was asked for
NoReport == [op |-> ""]
attVars == <<attendance, mark, reply, offline, decide>>

\* localdate(): the calendar day of an instant (instants count from a local
\* midnight)
localdate(t) == t \div SecondsPerDay

(***************************************************************************)
(* Table Attendance.  unique_together = ("user", "date").                  *)
(***************************************************************************)
\* the value of a variable that holds no row (None)
NoRow == [id |-> 0]

\* Attendance.objects.filter(user=u, date=d)
AttendanceOf(u, d) == {r \in attendance : r.user = u /\ r.date = d}

\* .first() of a queryset of Attendance rows: the row of least id, or None
FirstRow(rows) ==
    IF rows = {} THEN NoRow
    ELSE CHOOSE r \in rows : \A s \in rows : r.id <= s.id

\* a table without the unique_together constraint
NoUniqueViolation(u, d) == FALSE

\* the unique_together constraint, as the database checks it on INSERT:
\* TRUE when a row of the same (user, date) is already stored
UniqueViolation(u, d) == AttendanceOf(u, d) # {}

\* the id the database gives the next Attendance row
NextAttendanceId == Cardinality(attendance) + 1

\* Attendance(user=..., office=..., date=...): a new row with the model's
\* defaults (nullable columns None, source ONLINE)
NewAttendance(u, o, d) ==
    [id |-> NextAttendanceId, user |-> u, office |-> o, date |-> d,
     check_in_time |-> NULL, check_out_time |-> NULL,
     check_in_lat |-> NULL, check_in_lng |-> NULL, check_in_accuracy_m |-> NULL,
     check_out_lat |-> NULL, check_out_lng |-> NULL, check_out_accuracy_m |-> NULL,
     source |-> "ONLINE"]

\* instance.save(): UPDATE of every column of the row with the instance's id
SaveRow(row) == {r \in attendance : r.id # row.id} \cup {row}

\* a transaction holds the row lock of the row its select_for_update read
LockedBy(p, id) == mark[p].pc = "tx" /\ id # 0 /\ mark[p].attendance.id = id

Locked(id) == \E p \in Procs : LockedBy(p, id)

(***************************************************************************)
(* AttendanceMarkSerializer: POST attendance/mark/.  The view runs         *)
(* validate() (is_valid) and then create() (save); only create() is a      *)
(* transaction.                                                            *)
(***************************************************************************)
\* a worker that serves no request
MarkIdle ==
    [pc |-> "idle", user |-> "", action |-> "", qr_token |-> "",
     lat |-> NULL, lng |-> NULL, accuracy_m |-> NULL,
     office |-> "", distance_m |-> NULL, today |-> NULL, now |-> NULL,
     attendance |-> NoRow]

\* the response: its status (or the error raised), the attendance_id, and
\* the numbers an error message reports
NoReply == [status |-> "", attendance_id |-> NULL, detail |-> <<>>]

\* a lookup of the token that ignores the is_active flags
AnyQrOffices(token) == {o \in Offices : qrs[o].qr_token = token}

\* OfficeQR.objects.filter(qr_token=token, is_active=True,
\*                         office__is_active=True)
ActiveQrOffices(token) ==
    {o \in Offices : /\ qrs[o].qr_token = token
                     /\ qrs[o].is_active
                     /\ offices[o].is_active}

\* .first() of that queryset (qr_token is unique: it holds one row at most)
FirstQrOffice(token) ==
    IF ActiveQrOffices(token) = {} THEN ""
    ELSE CHOOSE o \in ActiveQrOffices(token) : TRUE

\* a geofence that excludes its edge
OutsideOrOnRadius(dist, radius_m) == dist >= radius_m * 1000

\* dist_m > office.allowed_radius_m
OutsideRadius(dist, radius_m) == dist > radius_m * 1000

\* validate(attrs): the error it raises, or "" with the office and distance
Validate(u, token, lat, lng) ==
    LET office == FirstQrOffice(token)
        dist == Distances[<<lat, lng, offices[office].latitude,
                            offices[office].longitude>>]
    IN  IF ~users[u].is_verified
            THEN [error |-> "NOT_VERIFIED", office |-> "", distance_m |-> NULL,
                  detail |-> <<>>]
        ELSE IF ~users[u].is_active
            THEN [error |-> "INACTIVE", office |-> "", distance_m |-> NULL,
                  detail |-> <<>>]
        ELSE IF office = ""
            THEN [error |-> "INVALID_QR", office |-> "", distance_m |-> NULL,
                  detail |-> <<>>]
        ELSE IF OutsideRadius(dist, offices[office].allowed_radius_m)
            THEN [error |-> "OUT_OF_RANGE", office |-> "", distance_m |-> NULL,
                  detail |-> <<IntMetres(dist), offices[office].allowed_radius_m>>]
        ELSE [error |-> "", office |-> office, distance_m |-> dist,
              detail |-> <<>>]

\* ser.is_valid(raise_exception=True): a worker takes a request of user u and
\* validates it; a ValidationError ends the request with a 400 response
MarkValidate(p, u, action, token, fix) ==
    /\ mark[p].pc = "idle"
    /\ LET v == Validate(u, token, fix.lat, fix.lng)
       IN  IF v.error # ""
           THEN /\ reply' = [NoReply EXCEPT !.status = v.error,
                                            !.detail = v.detail]
                /\ UNCHANGED mark
           ELSE /\ mark' = [mark EXCEPT ![p] =
                       [MarkIdle EXCEPT !.pc = "validated", !.user = u,
                                        !.action = action,
                                        !.qr_token = token, !.lat = fix.lat,
                                        !.lng = fix.lng,
                                        !.accuracy_m = fix.accuracy_m,
                                        !.office = v.office,
                                        !.distance_m = v.distance_m]]
                /\ reply' = NoReply
    /\ UNCHANGED <<now, clock, authVars, registryVars, attendance, offline,
                   decide>>

\* create(), to the end of line 399: today = localdate(); the SELECT ... FOR
\* UPDATE of the day's row, which waits while another transaction holds the
\* row's lock and locks nothing when there is no row; now = timezone.now()
MarkSelect(p) ==
    /\ mark[p].pc = "validated"
    /\ LET today == localdate(now)
           row == FirstRow(AttendanceOf(mark[p].user, today))
       IN  /\ ~Locked(row.id)
           /\ mark' = [mark EXCEPT ![p].pc = "tx", ![p].today = today,
                                   ![p].now = now, ![p].attendance = row]
    /\ reply' = NoReply
    /\ UNCHANGED <<now, clock, authVars, registryVars, attendance, offline,
                   decide>>

\* the row a CHECKIN writes over the row it read
CheckedIn(m, row) ==
    [row EXCEPT !.office = m.office, !.check_in_time = m.now,
                !.check_in_lat = m.lat, !.check_in_lng = m.lng,
                !.check_in_accuracy_m = m.accuracy_m]

\* a CHECKOUT that moves the record to the office of its token
CheckedOutAtOffice(m, row) ==
    [row EXCEPT !.office = m.office, !.check_out_time = m.now,
                !.check_out_lat = m.lat, !.check_out_lng = m.lng,
                !.check_out_accuracy_m = m.accuracy_m]

\* the row a CHECKOUT writes over the row it read
CheckedOut(m, row) ==
    [row EXCEPT !.check_out_time = m.now, !.check_out_lat = m.lat,
                !.check_out_lng = m.lng, !.check_out_accuracy_m = m.accuracy_m]

\* a create() that checks in again over a stored check-in
MarkBranchReCheckin(m) ==
    IF m.action = "CHECKIN"
    THEN IF m.attendance.id = 0 THEN "INSERT" ELSE "CHECKED_IN"
    ELSE IF m.attendance.id = 0 \/ m.attendance.check_in_time = NULL
            THEN "MUST_CHECKIN_FIRST"
         ELSE IF m.attendance.check_out_time # NULL THEN "ALREADY_CHECKED_OUT"
         ELSE "CHECKED_OUT"

\* a create() that checks out a record without a check-in
MarkBranchCheckoutUnguarded(m) ==
    IF m.action = "CHECKIN"
    THEN IF m.attendance.id # 0 /\ m.attendance.check_in_time # NULL
            THEN "ALREADY_CHECKED_IN"
         ELSE IF m.attendance.id = 0 THEN "INSERT"
         ELSE "CHECKED_IN"
    ELSE IF m.attendance.id = 0 THEN "MUST_CHECKIN_FIRST"
         ELSE IF m.attendance.check_out_time # NULL THEN "ALREADY_CHECKED_OUT"
         ELSE "CHECKED_OUT"

\* a create() that checks out again over a stored check-out
MarkBranchReCheckout(m) ==
    IF m.action = "CHECKIN"
    THEN IF m.attendance.id # 0 /\ m.attendance.check_in_time # NULL
            THEN "ALREADY_CHECKED_IN"
         ELSE IF m.attendance.id = 0 THEN "INSERT"
         ELSE "CHECKED_IN"
    ELSE IF m.attendance.id = 0 \/ m.attendance.check_in_time = NULL
            THEN "MUST_CHECKIN_FIRST"
         ELSE "CHECKED_OUT"

\* the branch of create() a transaction takes, from the row it read
MarkBranch(m) ==
    IF m.action = "CHECKIN"
    THEN IF m.attendance.id # 0 /\ m.attendance.check_in_time # NULL
            THEN "ALREADY_CHECKED_IN"
         ELSE IF m.attendance.id = 0 THEN "INSERT"
         ELSE "CHECKED_IN"
    ELSE IF m.attendance.id = 0 \/ m.attendance.check_in_time = NULL
            THEN "MUST_CHECKIN_FIRST"
         ELSE IF m.attendance.check_out_time # NULL THEN "ALREADY_CHECKED_OUT"
         ELSE "CHECKED_OUT"

\* the table after the transaction of m: (new table, status, attendance_id)
MarkWrite(m) ==
    LET b == MarkBranch(m)
        created == CheckedIn(m, NewAttendance(m.user, m.office, m.today))
    IN  CASE b = "INSERT" ->
               IF UniqueViolation(m.user, m.today)
               THEN <<attendance, "INTEGRITY_ERROR", NULL>>
               ELSE <<attendance \cup {created}, "CHECKED_IN", created.id>>
          [] b = "CHECKED_IN" ->
               <<SaveRow(CheckedIn(m, m.attendance)), b, m.attendance.id>>
          [] b = "CHECKED_OUT" ->
               <<SaveRow(CheckedOut(m, m.attendance)), b, m.attendance.id>>
          [] b = "MUST_CHECKIN_FIRST" -> <<attendance, b, NULL>>
          [] OTHER -> <<attendance, b, m.attendance.id>>

\* create(), from line 401: the branch, its write, and the commit (or the
\* rollback on an exception) that ends the transaction and frees the lock
MarkCreate(p) ==
    /\ mark[p].pc = "tx"
    /\ LET w == MarkWrite(mark[p])
       IN  /\ attendance' = w[1]
           /\ reply' = [NoReply EXCEPT !.status = w[2],
                                       !.attendance_id = w[3]]
           /\ mark' = [mark EXCEPT ![p] = MarkIdle]
    /\ UNCHANGED <<now, clock, authVars, registryVars, offline, decide>>

\* half a day passes
AdvanceAtt ==
    /\ clock < MaxClockAtt
    /\ now' = now + (SecondsPerDay \div 2)
    /\ clock' = clock + 1
    /\ reply' = NoReply
    /\ UNCHANGED <<authVars, registryVars, attendance, mark, offline, decide>>

(***************************************************************************)
(* AdminGenerateOfficeQRView: the admin generates or rotates the token of  *)
(* an office.  The view opens no transaction; the row is written by one    *)
(* INSERT or one UPDATE.                                                   *)
(***************************************************************************)
\* the tokens secrets.token_urlsafe(24) draws
NewTokens == {"t5", "t6"}

\* a rotation that leaves the row's is_active flag as it was
StaleQr(qr, token) == [qr_token |-> token, is_active |-> qr.is_active]

\* the row after get_or_create(office, defaults=...) or, when the row
\* exists, after qr.qr_token = token, qr.is_active = True, qr.save()
RotatedQr(qr, token) == [qr_token |-> token, is_active |-> TRUE]

\* post(request, office_id): 404 when the office is missing or inactive; an
\* IntegrityError when the token is the qr_token of another row (unique)
AdminGenerateOfficeQR(office_id, token) ==
    /\ IF ~offices[office_id].is_active
       THEN UNCHANGED qrs
       ELSE IF \E o \in Offices \ {office_id} : qrs[o].qr_token = token
       THEN UNCHANGED qrs
       ELSE qrs' = [qrs EXCEPT ![office_id] = RotatedQr(@, token)]
    /\ UNCHANGED <<now, clock, authVars, offices, report, attVars>>

(***************************************************************************)
(* OfflineAttendanceRequest and AdminOfflineDecisionSerializer.  The       *)
(* decision runs outside any transaction: each statement commits alone.    *)
(***************************************************************************)
\* the requests the users submit: user, office, date and the optional times
OfflineSamples ==
    { [user |-> "u1", office |-> "o2", date |-> 0,
       check_in_time |-> NULL, check_out_time |-> 18 * SecondsPerHour] }

DecideIdle == [pc |-> "idle", req |-> NoRow, att |-> NoRow]

\* OfflineAttendanceRequestSerializer.create: POST of a new request (the
\* model lets a user ask once for a day)
OfflineCreate(sample) ==
    /\ \A r \in offline : r.user # sample.user \/ r.date # sample.date
    /\ offline' = offline \cup
          {[id |-> Cardinality(offline) + 1, user |-> sample.user,
            office |-> sample.office, date |-> sample.date,
            check_in_time |-> sample.check_in_time,
            check_out_time |-> sample.check_out_time,
            status |-> "PENDING", admin_comment |-> "",
            decided_by |-> "", decided_at |-> NULL]}
    /\ reply' = NoReply
    /\ UNCHANGED <<now, clock, authVars, registryVars, attendance, mark,
                   decide>>

\* AdminOfflineAttendanceDecideView.post and update() to line 612: the
\* request row is loaded by id, the decision is written and saved
DecideUpdate(id, status, admin_comment) ==
    /\ decide.pc = "idle"
    /\ \E obj \in offline :
          /\ obj.id = id
          /\ LET instance == [obj EXCEPT !.status = status,
                                         !.admin_comment = admin_comment,
                                         !.decided_by = "admin",
                                         !.decided_at = now]
             IN  /\ offline' = (offline \ {obj}) \cup {instance}
                 /\ decide' = IF status = "APPROVED"
                               THEN [pc |-> "get", req |-> instance,
                                     att |-> NoRow]
                               ELSE DecideIdle
    /\ reply' = NoReply
    /\ UNCHANGED <<now, clock, authVars, registryVars, attendance, mark>>

\* get_or_create, its first get(user=..., date=...)
DecideGet ==
    /\ decide.pc = "get"
    /\ LET row == FirstRow(AttendanceOf(decide.req.user, decide.req.date))
       IN  decide' = IF row.id # 0
                     THEN [decide EXCEPT !.pc = "save", !.att = row]
                     ELSE [decide EXCEPT !.pc = "insert"]
    /\ reply' = NoReply
    /\ UNCHANGED <<now, clock, authVars, registryVars, attendance, mark,
                   offline>>

\* get_or_create, after DoesNotExist: create(user, date, office); on an
\* IntegrityError the row stored meanwhile is read instead
DecideInsert ==
    /\ decide.pc = "insert"
    /\ LET created == NewAttendance(decide.req.user, decide.req.office,
                                    decide.req.date)
       IN  IF UniqueViolation(decide.req.user, decide.req.date)
           THEN /\ decide' = [decide EXCEPT !.pc = "save", !.att =
                      FirstRow(AttendanceOf(decide.req.user, decide.req.date))]
                /\ UNCHANGED attendance
           ELSE /\ attendance' = attendance \cup {created}
                /\ decide' = [decide EXCEPT !.pc = "save", !.att = created]
    /\ reply' = NoReply
    /\ UNCHANGED <<now, clock, authVars, registryVars, mark, offline>>

\* an approval that writes the request's times even when they are missing
ApprovedOverwrite(req, att) ==
    [att EXCEPT !.office = req.office,
                !.check_in_time = req.check_in_time,
                !.check_out_time = req.check_out_time,
                !.source = "OFFLINE"]

\* the row update() saves, lines 621-626, from the row get_or_create returned
Approved(req, att) ==
    [att EXCEPT !.office = req.office,
                !.check_in_time = IF req.check_in_time # NULL
                                  THEN req.check_in_time ELSE @,
                !.check_out_time = IF req.check_out_time # NULL
                                   THEN req.check_out_time ELSE @,
                !.source = "OFFLINE"]

\* att.save(): the UPDATE waits while a transaction holds the row's lock
DecideSave ==
    /\ decide.pc = "save"
    /\ ~Locked(decide.att.id)
    /\ attendance' = SaveRow(Approved(decide.req, decide.att))
    /\ decide' = DecideIdle
    /\ reply' = NoReply
    /\ UNCHANGED <<now, clock, authVars, registryVars, mark, offline>>

(***************************************************************************)
(* The admin attendance report: _build_attendance_rows and its helpers.    *)
(* Dates are day numbers; the time of day of an instant is its remainder   *)
(* by a day (instants count from a local midnight).                        *)
(***************************************************************************)
\* OFFICE_START = time(10, 0, 0), in seconds of the day
OFFICE_START == 10 * SecondsPerHour

\* a day list that leaves the last day out
DateRangeOpen(d1, d2) == [i \in 1..(IF d1 < d2 THEN d2 - d1 ELSE 0) |-> d1 + i - 1]

\* _date_range_list: cur = d1; while cur <= d2: append cur; cur += 1 day
_date_range_list(d1, d2) ==
    [i \in 1..(IF d1 <= d2 THEN d2 - d1 + 1 ELSE 0) |-> d1 + i - 1]

\* a lateness that counts every started minute
MinutesLateCeil(check_in_dt) ==
    IF check_in_dt = NULL THEN 0
    ELSE LET t == check_in_dt % SecondsPerDay
         IN  IF t <= OFFICE_START THEN 0
             ELSE (t - OFFICE_START + 59) \div 60

\* _minutes_late: 0 without a check-in; t = localtime(dt).time(); 0 when
\* t <= OFFICE_START; else int(delta.total_seconds() // 60)
_minutes_late(check_in_dt) ==
    IF check_in_dt = NULL THEN 0
    ELSE LET t == check_in_dt % SecondsPerDay
         IN  IF t <= OFFICE_START THEN 0
             ELSE (t - OFFICE_START) \div 60

\* users_qs: filter(is_staff=False, is_superuser=False), and id__in=user_ids
\* when user_ids is not empty
ReportUsers(user_ids) ==
    {u \in Users : /\ users[u].exists
                    /\ ~users[u].is_staff /\ ~users[u].is_superuser
                    /\ (user_ids # {} => u \in user_ids)}

\* att_qs: the rows of the range, of user_ids when given, of office_id when
\* it is truthy ("" stands for a missing or empty parameter)
ReportAttendance(from_date, to_date, user_ids, office_id) ==
    {a \in attendance : /\ a.date >= from_date /\ a.date <= to_date
                         /\ (user_ids # {} => a.user \in user_ids)
                         /\ (office_id # "" => a.office = office_id)}

\* att_map.get((u.id, d)): the row of att_qs stored under the key, or None
AttMapGet(att_qs, u, d) ==
    IF \E a \in att_qs : a.user = u /\ a.date = d
    THEN CHOOSE a \in att_qs : a.user = u /\ a.date = d
    ELSE NoRow

\* the row of the report for user u and day d
ReportRow(att_qs, u, d) ==
    LET a == AttMapGet(att_qs, u, d)
    IN  IF a = NoRow
        THEN [date |-> d, user |-> u, office |-> "",
              check_in_time |-> NULL, check_out_time |-> NULL,
              status |-> "ABSENT", late_minutes |-> 0]
        ELSE [date |-> d, user |-> u, office |-> a.office,
              check_in_time |-> a.check_in_time,
              check_out_time |-> a.check_out_time,
              status |-> "PRESENT",
              late_minutes |-> _minutes_late(a.check_in_time)]

\* the loop over days for one user: the counters after the days from i on
RECURSIVE CountDays(_, _, _, _, _)
CountDays(att_qs, u, days, i, acc) ==
    IF i > Len(days) THEN acc
    ELSE LET row == ReportRow(att_qs, u, days[i])
         IN  CountDays(att_qs, u, days, i + 1,
                 IF row.status = "ABSENT"
                 THEN [acc EXCEPT !.absent_days = @ + 1]
                 ELSE [acc EXCEPT !.present_days = @ + 1,
                                  !.late_days = IF row.late_minutes > 0
                                                THEN @ + 1 ELSE @])

\* _build_attendance_rows: the rows and the summary of every listed user
_build_attendance_rows(from_date, to_date, user_ids, office_id) ==
    LET att_qs == ReportAttendance(from_date, to_date, user_ids, office_id)
        days == _date_range_list(from_date, to_date)
        listed == ReportUsers(user_ids)
    IN  [rows |-> {ReportRow(att_qs, u, days[i]) :
                     u \in listed, i \in 1..Len(days)},
         summary |-> [u \in listed |->
                        CountDays(att_qs, u, days, 1,
                                  [total_days |-> Len(days),
                                   present_days |-> 0, absent_days |-> 0,
                                   late_days |-> 0])]]

\* AdminAttendanceReportView.get: the range from "from" and "to", or else
\* the last `days` days to today (7 when days is missing)
AdminAttendanceReport(from_s, to_s, days, ids, office_id) ==
    /\ LET d == IF days # NULL THEN days ELSE 7
           to_date == IF from_s # NULL /\ to_s # NULL
                      THEN to_s ELSE localdate(now)
           from_date == IF from_s # NULL /\ to_s # NULL
                        THEN from_s ELSE to_date - (d - 1)
           built == _build_attendance_rows(from_date, to_date, ids,
                                           office_id)
       IN  report' = [op |-> "report", from |-> from_date, to |-> to_date,
                      user_ids |-> ids, office_id |-> office_id,
                      rows |-> built.rows, summary |-> built.summary]
    /\ UNCHANGED <<now, clock, authVars, offices, qrs, attVars>>

(***************************************************************************)
(* The attendance specifications: the accounts are registered and the      *)
(* administrator has set up the offices and their QR codes.                *)
(***************************************************************************)
(***************************************************************************)
(* Tables User, EmployeeProfile and EmailOTP; RegisterSerializer,          *)
(* ResendOtpSerializer and VerifyOtpSerializer.  Each handler is one       *)
(* transaction (@transaction.atomic); the requests are served one at a     *)
(* time.  EmailOTP has the single purpose REGISTER_VERIFY, which every     *)
(* query names: the column is left out.                                    *)
(***************************************************************************)
\* no User row of the email
NoUser ==
    [exists |-> FALSE, is_verified |-> FALSE, is_active |-> FALSE,
     password |-> "", full_name |-> ""]

\* no EmployeeProfile row of the user
NoProfile == "none"

\* the response of an auth request: the operation and its email, the
\* outcome, the seconds to wait of a cooldown rejection, the digits a
\* Verify presented
NoResp == [op |-> "", email |-> "", status |-> "", wait |-> NULL, otp |-> ""]

\* no issuance holds an open transaction
IssueIdle ==
    [pc |-> "idle", op |-> "", email |-> "", user |-> NoUser,
     profile |-> NoProfile, row |-> NoRow, otp |-> ""]

\* sha256 of "otp:salt": distinct (otp, salt) give distinct digests
_hash_otp(otp, salt) == <<otp, salt>>

\* EmailOTP.objects.filter(email=email)
OtpsOf(email) == {r \in otps : r.email = email}

\* .order_by("-created_at").first(): the row created last, or None
LatestOtp(rows) ==
    IF rows = {} THEN NoRow
    ELSE CHOOSE r \in rows :
            \A x \in rows : x.created_at < r.created_at
                             \/ (x.created_at = r.created_at /\ x.id <= r.id)

\* last_sent_at when the row has one, else created_at
_safe_last_sent_at(obj) ==
    IF obj.last_sent_at # NULL THEN obj.last_sent_at ELSE obj.created_at

\* a cooldown of half the configured length
HalfCooldown(t, last_sent) ==
    t - last_sent < OTP_RESEND_COOLDOWN_SECONDS \div 2

\* (now - last_sent).total_seconds() < cooldown
InCooldown(t, last_sent) == t - last_sent < OTP_RESEND_COOLDOWN_SECONDS

\* wait = cooldown - int((now - last_sent).total_seconds()); max(wait, 1)
WaitSeconds(t, last_sent) ==
    LET wait == OTP_RESEND_COOLDOWN_SECONDS - (t - last_sent)
    IN  IF wait > 1 THEN wait ELSE 1

\* filter(email=email, created_at__gte=one_hour_ago).count()
HourlyCount(email, t) ==
    Cardinality({r \in OtpsOf(email) : r.created_at >= t - SecondsPerHour})

\* a cap that lets one more code through
OverHourlyCap(hourly_count) == hourly_count > OTP_MAX_SEND_PER_HOUR

\* hourly_count >= max_per_hour
AtHourlyCap(hourly_count) == hourly_count >= OTP_MAX_SEND_PER_HOUR

\* the throttle of Register: both checks only when a code exists
RegisterThrottle(email, t) ==
    LET last_otp == LatestOtp(OtpsOf(email))
    IN  IF last_otp = NoRow THEN [error |-> "", wait |-> NULL]
        ELSE IF InCooldown(t, _safe_last_sent_at(last_otp))
            THEN [error |-> "COOLDOWN",
                  wait |-> WaitSeconds(t, _safe_last_sent_at(last_otp))]
        ELSE IF AtHourlyCap(HourlyCount(email, t))
            THEN [error |-> "HOURLY_LIMIT", wait |-> NULL]
        ELSE [error |-> "", wait |-> NULL]

\* the throttle of Resend: the cooldown when a code exists, then the cap
ResendThrottle(email, t) ==
    LET last_otp == LatestOtp(OtpsOf(email))
    IN  IF last_otp # NoRow /\ InCooldown(t, _safe_last_sent_at(last_otp))
            THEN [error |-> "COOLDOWN",
                  wait |-> WaitSeconds(t, _safe_last_sent_at(last_otp))]
        ELSE IF AtHourlyCap(HourlyCount(email, t))
            THEN [error |-> "HOURLY_LIMIT", wait |-> NULL]
        ELSE [error |-> "", wait |-> NULL]

\* EmailOTP.objects.create(...), then last_sent_at = now: the new row.
\* created_at (auto_now_add) is the instant of the INSERT, the instant the
\* handler read as now at this resolution
NewOtp(email, otp, salt, t) ==
    [id |-> Cardinality(otps) + 1, email |-> email,
     otp_hash |-> _hash_otp(otp, salt), salt |-> salt,
     expires_at |-> t + OTP_EXPIRY_MINUTES * 60, is_used |-> FALSE,
     created_at |-> t, last_sent_at |-> t]

\* the message of an issuance: the recipient and the plaintext code (the
\* subject and the wording are left out), with the row it belongs to
OtpMail(row, otp) == [to |-> row.email, otp |-> otp, otp_id |-> row.id]

\* transaction.on_commit(send_otp_email): run after the commit; an SMTP
\* failure is a ValidationError of the response, the commit stands
SendOnCommit(op, row, otp, smtp_ok) ==
    IF smtp_ok
    THEN /\ outbox' = outbox \cup {OtpMail(row, otp)}
         /\ resp' = [NoResp EXCEPT !.op = op, !.email = row.email,
                                   !.status = "OTP_SENT"]
    ELSE /\ outbox' = outbox
         /\ resp' = [NoResp EXCEPT !.op = op, !.email = row.email,
                                   !.status = "EMAIL_FAILED"]

\* a registration that leaves the account active
RegisteredUserActive(existing, password, full_name) ==
    [exists |-> TRUE, is_verified |-> FALSE, is_active |-> TRUE,
     password |-> password,
     full_name |-> IF existing.exists /\ full_name = ""
                   THEN existing.full_name ELSE full_name]

\* the user row Register writes: the existing unverified row with the new
\* password (and full name, when given), or a new row; both flags False
RegisteredUser(existing, password, full_name) ==
    [exists |-> TRUE, is_verified |-> FALSE, is_active |-> FALSE,
     password |-> password,
     full_name |-> IF existing.exists /\ full_name = ""
                   THEN existing.full_name ELSE full_name]

\* get_or_create(user, defaults={"phone": phone}), then the phone when given
RegisteredProfile(profile, phone) ==
    IF phone # "" THEN phone
    ELSE IF profile = NoProfile THEN "" ELSE profile

\* a transaction whose writes stay when an exception leaves the block
NotRolledBack(before, written) == written

\* @transaction.atomic: an exception that leaves the block undoes the
\* block's writes; the row is as before the request
RolledBack(before, written) == before

\* RegisterSerializer.create: POST auth/register/
Register(email, password, full_name, phone, otp, salt, smtp_ok) ==
    /\ LET existing == users[email]
           throttle == RegisterThrottle(email, now)
           row == NewOtp(email, otp, salt, now)
       IN  IF existing.exists /\ existing.is_verified
           THEN /\ resp' = [NoResp EXCEPT !.op = "register", !.email = email,
                                          !.status = "ALREADY_VERIFIED"]
                /\ UNCHANGED <<users, profiles, otps, outbox>>
           ELSE IF throttle.error # ""
           THEN \* the ValidationError rolls the user and profile writes back
                /\ resp' = [NoResp EXCEPT !.op = "register", !.email = email,
                                          !.status = throttle.error,
                                          !.wait = throttle.wait]
                /\ users' = [users EXCEPT ![email] =
                      RolledBack(existing,
                                 RegisteredUser(existing, password, full_name))]
                /\ profiles' = [profiles EXCEPT ![email] =
                      RolledBack(profiles[email],
                                 RegisteredProfile(profiles[email], phone))]
                /\ UNCHANGED <<otps, outbox>>
           ELSE /\ users' = [users EXCEPT ![email] =
                               RegisteredUser(existing, password, full_name)]
                /\ profiles' = [profiles EXCEPT ![email] =
                                  RegisteredProfile(profiles[email], phone)]
                /\ otps' = otps \cup {row}
                /\ SendOnCommit("register", row, otp, smtp_ok)
    /\ UNCHANGED <<now, clock, issue, registryVars, attVars>>

\* ResendOtpSerializer.validate: POST auth/resend-otp/
Resend(email, otp, salt, smtp_ok) ==
    /\ LET user == users[email]
           throttle == ResendThrottle(email, now)
           row == NewOtp(email, otp, salt, now)
       IN  IF ~user.exists
           THEN /\ resp' = [NoResp EXCEPT !.op = "resend", !.email = email,
                                          !.status = "USER_NOT_FOUND"]
                /\ UNCHANGED <<users, profiles, otps, outbox>>
           ELSE IF user.is_verified
           THEN /\ resp' = [NoResp EXCEPT !.op = "resend", !.email = email,
                                          !.status = "ALREADY_VERIFIED"]
                /\ UNCHANGED <<users, profiles, otps, outbox>>
           ELSE IF throttle.error # ""
           THEN /\ resp' = [NoResp EXCEPT !.op = "resend", !.email = email,
                                          !.status = throttle.error,
                                          !.wait = throttle.wait]
                /\ UNCHANGED <<users, profiles, otps, outbox>>
           ELSE /\ otps' = otps \cup {row}
                /\ SendOnCommit("resend", row, otp, smtp_ok)
                /\ UNCHANGED <<users, profiles>>
    /\ UNCHANGED <<now, clock, issue, registryVars, attVars>>

\* a code that never expires
NeverExpired(t, otp_obj) == FALSE

\* timezone.now() > otp_obj.expires_at
Expired(t, otp_obj) == t > otp_obj.expires_at

\* a lookup that takes the unused code created first
OldestUnusedOtp(email) ==
    LET rows == {r \in OtpsOf(email) : ~r.is_used}
    IN  IF rows = {} THEN NoRow
        ELSE CHOOSE r \in rows : \A x \in rows : r.created_at <= x.created_at

\* filter(email=email, is_used=False).order_by("-created_at").first()
LatestUnusedOtp(email) == LatestOtp({r \in OtpsOf(email) : ~r.is_used})

\* the outcome of VerifyOtpSerializer.validate
VerifyOutcome(email, otp, t) ==
    LET user == users[email]
        otp_obj == LatestUnusedOtp(email)
    IN  IF ~user.exists THEN "USER_NOT_FOUND"
        ELSE IF user.is_verified THEN "OK_ALREADY_VERIFIED"
        ELSE IF otp_obj = NoRow THEN "OTP_NOT_FOUND"
        ELSE IF Expired(t, otp_obj) THEN "OTP_EXPIRED"
        ELSE IF _hash_otp(otp, otp_obj.salt) # otp_obj.otp_hash
            THEN "OTP_INVALID"
        ELSE "VERIFIED"

\* a Verify that spends the code on a wrong guess
VerifyBurning(email, otp) ==
    /\ LET outcome == VerifyOutcome(email, otp, now)
           otp_obj == LatestUnusedOtp(email)
       IN  /\ resp' = [NoResp EXCEPT !.op = "verify", !.email = email,
                                     !.status = outcome, !.otp = otp]
           /\ IF outcome = "VERIFIED"
              THEN /\ users' = [users EXCEPT ![email].is_verified = TRUE,
                                             ![email].is_active = TRUE]
                   /\ otps' = (otps \ {otp_obj})
                                 \cup {[otp_obj EXCEPT !.is_used = TRUE]}
              ELSE IF outcome = "OTP_INVALID"
              THEN /\ otps' = (otps \ {otp_obj})
                                 \cup {[otp_obj EXCEPT !.is_used = TRUE]}
                   /\ UNCHANGED users
              ELSE UNCHANGED <<users, otps>>
           /\ UNCHANGED <<profiles, outbox>>
    /\ UNCHANGED <<now, clock, issue, registryVars, attVars>>

\* VerifyOtpSerializer.validate: POST auth/verify-otp/
Verify(email, otp) ==
    /\ LET outcome == VerifyOutcome(email, otp, now)
           otp_obj == LatestUnusedOtp(email)
       IN  /\ resp' = [NoResp EXCEPT !.op = "verify", !.email = email,
                                     !.status = outcome, !.otp = otp]
           /\ IF outcome = "VERIFIED"
              THEN /\ users' = [users EXCEPT ![email].is_verified = TRUE,
                                             ![email].is_active = TRUE]
                   /\ otps' = (otps \ {otp_obj})
                                 \cup {[otp_obj EXCEPT !.is_used = TRUE]}
              ELSE UNCHANGED <<users, otps>>
           /\ UNCHANGED <<profiles, outbox>>
    /\ UNCHANGED <<now, clock, issue, registryVars, attVars>>

InitRegistry ==
    /\ offices =
          [o \in Offices |->
             [latitude |-> Sites[o].latitude,
              longitude |-> Sites[o].longitude,
              allowed_radius_m |-> IF o = "o2" THEN 0 ELSE 100,
              is_active |-> o # "o3"]]
    /\ qrs =
          [o \in Offices |->
             [qr_token |-> CASE o = "o1" -> "t1" [] o = "o2" -> "t2"
                             [] o = "o3" -> "t3" [] OTHER -> "t4",
              is_active |-> o # "o4"]]
    /\ report = NoReport

InitAtt ==
    /\ now = 0
    /\ clock = 0
    /\ users =
          [u \in Users |->
             [exists |-> TRUE, is_verified |-> u # "u2",
              is_active |-> u # "u3", password |-> "pw1", full_name |-> ""]]
    /\ profiles = [u \in Users |-> ""]
    /\ otps = {}
    /\ outbox = {}
    /\ resp = NoResp
    /\ issue = IssueIdle
    /\ InitRegistry
    /\ attendance = {}
    /\ mark = [p \in Procs |-> MarkIdle]
    /\ reply = NoReply
    /\ offline = {}
    /\ decide = DecideIdle

\* the Mark requests of two phones of u1, at office o1 and at office o2, and
\* of the unverified u2
RaceSamples ==
    { <<"u1", "t1", FixNear>>, <<"u1", "t2", FixFar>>, <<"u2", "t1", FixNear>> }

NextMark ==
    \/ AdvanceAtt
    \/ \E p \in Procs, action \in Actions, s \in RaceSamples :
          MarkValidate(p, s[1], action, s[2], s[3])
    \/ \E p \in Procs : MarkSelect(p)
    \/ \E p \in Procs : MarkCreate(p)

SpecMark == InitAtt /\ [][NextMark]_vars

\* every kind of Mark request, served by one worker: validate() reads the
\* tables User, OfficeQR and OfficeLocation, which no Mark request writes
NextGate ==
    \/ AdvanceAtt
    \/ \E action \in Actions, s \in MarkSamples :
          MarkValidate("p1", s[1], action, s[2], s[3])
    \/ MarkSelect("p1")
    \/ MarkCreate("p1")

SpecGate == InitAtt /\ [][NextGate]_vars

\* the Mark requests of the specification with offline approvals
AttSamples == { <<"u1", "t1", FixNear>>, <<"u2", "t1", FixNear>> }

NextAtt ==
    \/ AdvanceAtt
    \/ \E p \in Procs, action \in Actions, s \in AttSamples :
          MarkValidate(p, s[1], action, s[2], s[3])
    \/ \E p \in Procs : MarkSelect(p)
    \/ \E p \in Procs : MarkCreate(p)
    \/ \E sample \in OfflineSamples : OfflineCreate(sample)
    \/ \E r \in offline, status \in {"APPROVED", "REJECTED"} :
          DecideUpdate(r.id, status, "")
    \/ DecideGet
    \/ DecideInsert
    \/ DecideSave

SpecAtt == InitAtt /\ [][NextAtt]_vars

\* a login that does not look at the verified flag
LoginOutcomeUnverified(email, password) ==
    LET user == users[email]
    IN  IF ~user.exists \/ user.password # password \/ ~user.is_active
            THEN "NO_ACTIVE_ACCOUNT"
        ELSE "TOKEN"

\* CustomTokenObtainPairSerializer.validate: super().validate authenticates
\* the email and password (Django's ModelBackend refuses a missing account,
\* a wrong password and an inactive account); then the two flag checks
LoginOutcome(email, password) ==
    LET user == users[email]
    IN  IF ~user.exists \/ user.password # password \/ ~user.is_active
            THEN "NO_ACTIVE_ACCOUNT"
        ELSE IF ~user.is_verified THEN "NOT_VERIFIED"
        ELSE IF ~user.is_active THEN "INACTIVE"
        ELSE "TOKEN"

\* LoginView: POST auth/login/
Login(email, password) ==
    /\ resp' = [NoResp EXCEPT !.op = "login", !.email = email,
                              !.status = LoginOutcome(email, password)]
    /\ UNCHANGED <<users, profiles, otps, outbox>>
    /\ UNCHANGED <<now, clock, issue, registryVars, attVars>>

(***************************************************************************)
(* serializers.py, the module views.py names in its import: the same       *)
(* issuance, with send_mail called inside the @transaction.atomic block.   *)
(* The message leaves while the transaction is open; the rows are visible  *)
(* to other requests from the exit of the block on.                        *)
(***************************************************************************)
\* RegisterSerializer.create of serializers.py, to the return of send_mail
\* at line 105.  An exception of send_mail leaves the block and rolls the
\* transaction back; the request ends with an error response
RegisterSendMail(email, password, full_name, phone, otp, salt, smtp_ok) ==
    /\ issue.pc = "idle"
    /\ LET existing == users[email]
           throttle == RegisterThrottle(email, now)
           row == NewOtp(email, otp, salt, now)
       IN  IF existing.exists /\ existing.is_verified
           THEN /\ resp' = [NoResp EXCEPT !.op = "register", !.email = email,
                                          !.status = "ALREADY_VERIFIED"]
                /\ UNCHANGED <<outbox, issue>>
           ELSE IF throttle.error # ""
           THEN /\ resp' = [NoResp EXCEPT !.op = "register", !.email = email,
                                          !.status = throttle.error,
                                          !.wait = throttle.wait]
                /\ UNCHANGED <<outbox, issue>>
           ELSE IF ~smtp_ok
           THEN /\ resp' = [NoResp EXCEPT !.op = "register", !.email = email,
                                          !.status = "EMAIL_FAILED"]
                /\ UNCHANGED <<outbox, issue>>
           ELSE /\ outbox' = outbox \cup {OtpMail(row, otp)}
                /\ issue' = [pc |-> "sent", op |-> "register",
                             email |-> email,
                             user |-> RegisteredUser(existing, password,
                                                     full_name),
                             profile |-> RegisteredProfile(profiles[email],
                                                           phone),
                             row |-> row, otp |-> otp]
                /\ resp' = NoResp
    /\ UNCHANGED <<users, profiles, otps>>
    /\ UNCHANGED <<now, clock, registryVars, attVars>>

\* ResendOtpSerializer.validate of serializers.py, to the return of send_mail
\* at line 214
ResendSendMail(email, otp, salt, smtp_ok) ==
    /\ issue.pc = "idle"
    /\ LET user == users[email]
           throttle == ResendThrottle(email, now)
           row == NewOtp(email, otp, salt, now)
       IN  IF ~user.exists
           THEN /\ resp' = [NoResp EXCEPT !.op = "resend", !.email = email,
                                          !.status = "USER_NOT_FOUND"]
                /\ UNCHANGED <<outbox, issue>>
           ELSE IF user.is_verified
           THEN /\ resp' = [NoResp EXCEPT !.op = "resend", !.email = email,
                                          !.status = "ALREADY_VERIFIED"]
                /\ UNCHANGED <<outbox, issue>>
           ELSE IF throttle.error # ""
           THEN /\ resp' = [NoResp EXCEPT !.op = "resend", !.email = email,
                                          !.status = throttle.error,
                                          !.wait = throttle.wait]
                /\ UNCHANGED <<outbox, issue>>
           ELSE IF ~smtp_ok
           THEN /\ resp' = [NoResp EXCEPT !.op = "resend", !.email = email,
                                          !.status = "EMAIL_FAILED"]
                /\ UNCHANGED <<outbox, issue>>
           ELSE /\ outbox' = outbox \cup {OtpMail(row, otp)}
                /\ issue' = [pc |-> "sent", op |-> "resend",
                             email |-> email, user |-> user,
                             profile |-> profiles[email],
                             row |-> row, otp |-> otp]
                /\ resp' = NoResp
    /\ UNCHANGED <<users, profiles, otps>>
    /\ UNCHANGED <<now, clock, registryVars, attVars>>

\* the exit of the @transaction.atomic block: the commit, and the response
AtomicExit ==
    /\ issue.pc = "sent"
    /\ users' = [users EXCEPT ![issue.email] = issue.user]
    /\ profiles' = [profiles EXCEPT ![issue.email] = issue.profile]
    /\ otps' = otps \cup {issue.row}
    /\ resp' = [NoResp EXCEPT !.op = issue.op, !.email = issue.email,
                              !.status = "OTP_SENT"]
    /\ issue' = IssueIdle
    /\ UNCHANGED <<now, clock, outbox, registryVars, attVars>>

(***************************************************************************)
(* Issuance by two workers at once (serializers_v3.py).  A handler is split *)
(* where it stops reading: the reads of the user and of the codes with the  *)
(* throttle checks, then EmailOTP.objects.create and the commit.  In the    *)
(* specification of concurrent issuance `issue` holds one record per        *)
(* worker.  The handlers take no lock on the codes; the UPDATE or INSERT of *)
(* the user row in Register holds that row to the commit.                   *)
(***************************************************************************)
\* another worker's open Register transaction holds the user row of email
UserRowHeld(p, email) ==
    \E q \in Procs \ {p} :
        /\ issue[q].pc = "insert" /\ issue[q].op = "register"
        /\ issue[q].email = email

\* RegisterSerializer.create to the throttle checks: the user and profile
\* writes wait for the commit in the worker's transaction
RegisterRead(p, email, password, full_name, phone, otp, salt) ==
    /\ issue[p].pc = "idle"
    /\ LET existing == users[email]
           throttle == RegisterThrottle(email, now)
       IN  IF existing.exists /\ existing.is_verified
           THEN /\ resp' = [NoResp EXCEPT !.op = "register", !.email = email,
                                          !.status = "ALREADY_VERIFIED"]
                /\ UNCHANGED issue
           ELSE /\ ~UserRowHeld(p, email)
                /\ IF throttle.error # ""
                   THEN /\ resp' = [NoResp EXCEPT !.op = "register",
                                         !.email = email,
                                         !.status = throttle.error,
                                         !.wait = throttle.wait]
                        /\ UNCHANGED issue
                   ELSE /\ issue' = [issue EXCEPT ![p] =
                              [pc |-> "insert", op |-> "register",
                               email |-> email,
                               user |-> RegisteredUser(existing, password,
                                                       full_name),
                               profile |-> RegisteredProfile(profiles[email],
                                                             phone),
                               row |-> NewOtp(email, otp, salt, now),
                               otp |-> otp]]
                        /\ resp' = NoResp
    /\ UNCHANGED <<users, profiles, otps, outbox>>
    /\ UNCHANGED <<now, clock, registryVars, attVars>>

\* ResendOtpSerializer.validate to the throttle checks
ResendRead(p, email, otp, salt) ==
    /\ issue[p].pc = "idle"
    /\ LET user == users[email]
           throttle == ResendThrottle(email, now)
       IN  IF ~user.exists
           THEN /\ resp' = [NoResp EXCEPT !.op = "resend", !.email = email,
                                          !.status = "USER_NOT_FOUND"]
                /\ UNCHANGED issue
           ELSE IF user.is_verified
           THEN /\ resp' = [NoResp EXCEPT !.op = "resend", !.email = email,
                                          !.status = "ALREADY_VERIFIED"]
                /\ UNCHANGED issue
           ELSE IF throttle.error # ""
           THEN /\ resp' = [NoResp EXCEPT !.op = "resend", !.email = email,
                                          !.status = throttle.error,
                                          !.wait = throttle.wait]
                /\ UNCHANGED issue
           ELSE /\ issue' = [issue EXCEPT ![p] =
                      [pc |-> "insert", op |-> "resend", email |-> email,
                       user |-> user, profile |-> profiles[email],
                       row |-> NewOtp(email, otp, salt, now), otp |-> otp]]
                /\ resp' = NoResp
    /\ UNCHANGED <<users, profiles, otps, outbox>>
    /\ UNCHANGED <<now, clock, registryVars, attVars>>

\* an INSERT that looks at the newest code again and gives way to a code
\* younger than the cooldown
CreateOtpChecked(row) ==
    LET last_otp == LatestOtp(OtpsOf(row.email))
    IN  IF last_otp # NoRow /\ InCooldown(now, _safe_last_sent_at(last_otp))
        THEN otps
        ELSE otps \cup {[row EXCEPT !.id = Cardinality(otps) + 1,
                                    !.created_at = now]}

\* EmailOTP.objects.create(...): the INSERT; id and created_at are those of
\* the instant of the INSERT, the other columns those the handler computed
CreateOtp(row) ==
    otps \cup {[row EXCEPT !.id = Cardinality(otps) + 1, !.created_at = now]}

\* the rest of either handler: the INSERT of the code, the commit (with the
\* user and profile writes of Register) and the mail after the commit
IssueInsert(p, smtp_ok) ==
    /\ issue[p].pc = "insert"
    /\ LET m == issue[p]
       IN  /\ otps' = CreateOtp(m.row)
           /\ users' = [users EXCEPT ![m.email] =
                           IF m.op = "register" THEN m.user ELSE @]
           /\ profiles' = [profiles EXCEPT ![m.email] =
                              IF m.op = "register" THEN m.profile ELSE @]
           /\ SendOnCommit(m.op,
                           [m.row EXCEPT !.id = Cardinality(otps) + 1,
                                         !.created_at = now],
                           m.otp, smtp_ok)
    /\ issue' = [issue EXCEPT ![p] = IssueIdle]
    /\ UNCHANGED <<now, clock, registryVars, attVars>>

(***************************************************************************)
(* The specifications of the auth endpoints.                               *)
(***************************************************************************)
\* u1 has no account; u2 registered at instant 0 and holds the code of that
\* registration, unverified; u3 is a verified, active account
InitOtp ==
    /\ now = 0
    /\ clock = 0
    /\ users =
          [u \in Users |->
             IF u = "u1" THEN NoUser
             ELSE [exists |-> TRUE, is_verified |-> u = "u3",
                   is_active |-> u = "u3", password |-> "pw1",
                   full_name |-> ""]]
    /\ profiles = [u \in Users |-> IF u = "u1" THEN NoProfile ELSE ""]
    /\ otps = {[id |-> 1, email |-> "u2",
                otp_hash |-> _hash_otp("111111", "s1"), salt |-> "s1",
                expires_at |-> OTP_EXPIRY_MINUTES * 60, is_used |-> FALSE,
                created_at |-> 0, last_sent_at |-> 0]}
    /\ outbox = {[to |-> "u2", otp |-> "111111", otp_id |-> 1]}
    /\ resp = NoResp
    /\ issue = IssueIdle
    /\ InitRegistry
    /\ attendance = {}
    /\ mark = [p \in Procs |-> MarkIdle]
    /\ reply = NoReply
    /\ offline = {}
    /\ decide = DecideIdle

\* time passes: delta seconds
AdvanceOtp(delta, bound) ==
    /\ clock < bound
    /\ now' = now + delta
    /\ clock' = clock + 1
    /\ resp' = NoResp
    /\ UNCHANGED <<users, profiles, otps, outbox, issue, registryVars,
                   attVars>>

\* the codes and salts the generator draws
IssueSamples == { <<"111111", "s1">>, <<"222222", "s2">> }

\* the steps of the clock in the throttle specification
ThrottleDeltas == {60, 3300}

NextOtp ==
    \/ \E delta \in ThrottleDeltas : AdvanceOtp(delta, MaxClockOtp)
    \/ Register("u1", "pw1", "", "", "111111", "s1", TRUE)
    \/ Resend("u1", "111111", "s1", TRUE)

SpecOtp == InitOtp /\ [][NextOtp]_vars

\* the steps of the clock in the verification specification
VerifyDeltas == {30, 60, 570}

NextVerify ==
    \/ \E delta \in VerifyDeltas : AdvanceOtp(delta, MaxClockVerify)
    \/ \E email \in {"u1", "u3"}, g \in IssueSamples :
          Register(email, "pw1", "", "", g[1], g[2], TRUE)
    \/ \E email \in {"u1", "u3"}, g \in IssueSamples :
          Resend(email, g[1], g[2], TRUE)
    \/ \E email \in Users, g \in IssueSamples : Verify(email, g[1])

SpecVerify == InitOtp /\ [][NextVerify]_vars

\* as InitOtp, with u3 not verified and active: the flags the admin site
\* and createsuperuser leave on an account that never registered here
InitAccount ==
    /\ now = 0
    /\ clock = 0
    /\ users =
         [u \in Users |->
            IF u = "u1" THEN NoUser
            ELSE [exists |-> TRUE, is_verified |-> FALSE,
                  is_active |-> (u = "u3"), password |-> "pw1",
                  full_name |-> ""]]
    /\ profiles = [u \in Users |-> IF u = "u1" THEN NoProfile ELSE ""]
    /\ otps = {[id |-> 1, email |-> "u2",
                otp_hash |-> _hash_otp("111111", "s1"), salt |-> "s1",
                expires_at |-> OTP_EXPIRY_MINUTES * 60, is_used |-> FALSE,
                created_at |-> 0, last_sent_at |-> 0]}
    /\ outbox = {[to |-> "u2", otp |-> "111111", otp_id |-> 1]}
    /\ resp = NoResp
    /\ issue = IssueIdle
    /\ InitRegistry
    /\ attendance = {}
    /\ mark = [p \in Procs |-> MarkIdle]
    /\ reply = NoReply
    /\ offline = {}
    /\ decide = DecideIdle

\* time passes: a minute; the responses of the requests served are gone
AdvanceAccount ==
    /\ clock < MaxClockAccount
    /\ now' = now + OTP_RESEND_COOLDOWN_SECONDS
    /\ clock' = clock + 1
    /\ resp' = NoResp
    /\ reply' = NoReply
    /\ UNCHANGED <<users, profiles, otps, outbox, issue, registryVars,
                   attendance, mark, offline, decide>>

\* the code the account specification issues
AccountIssue == <<"222222", "s2">>

\* the credentials presented at login: email and password
LoginSamples ==
    { <<"u1", "pw2">>, <<"u3", "pw1">>, <<"u3", "pw2">> }

\* Register, Resend, Verify, login and Mark (a CHECKIN of u3 at office o1,
\* served by one worker)
NextAccount ==
    \/ AdvanceAccount
    \/ \E email \in {"u1", "u3"} :
          Register(email, "pw2", "", "", AccountIssue[1], AccountIssue[2], TRUE)
    \/ Resend("u1", AccountIssue[1], AccountIssue[2], TRUE)
    \/ \E email \in {"u1", "u3"}, otp \in {"111111", "222222"} :
          Verify(email, otp)
    \/ \E c \in LoginSamples : Login(c[1], c[2])
    \/ MarkValidate("p1", "u3", "CHECKIN", "t1", FixNear)
    \/ MarkSelect("p1")
    \/ MarkCreate("p1")

SpecAccount == InitAccount /\ [][NextAccount]_vars

\* Register and Resend of serializers.py for u1 and u2, the SMTP server
\* accepting the message or not
NextSendMail ==
    \/ AdvanceOtp(OTP_RESEND_COOLDOWN_SECONDS, MaxClockVerify)
    \/ \E email \in {"u1", "u2"}, smtp_ok \in BOOLEAN :
          RegisterSendMail(email, "pw1", "", "", AccountIssue[1],
                           AccountIssue[2], smtp_ok)
    \/ \E email \in {"u1", "u2"}, smtp_ok \in BOOLEAN :
          ResendSendMail(email, AccountIssue[1], AccountIssue[2], smtp_ok)
    \/ AtomicExit

SpecSendMail == InitOtp /\ [][NextSendMail]_vars

\* the bodies of the Register requests: password, full name and phone
RegisterBodies == { <<"pw1", "", "">>, <<"pw2", "n2", "ph2">> }

\* re-registrations of the unverified account u2, a minute apart or less,
\* the SMTP server accepting the message or not
NextRegister ==
    \/ AdvanceOtp(OTP_RESEND_COOLDOWN_SECONDS, MaxClockOtp)
    \/ \E body \in RegisterBodies, smtp_ok \in BOOLEAN :
          Register("u2", body[1], body[2], body[3], AccountIssue[1],
                   AccountIssue[2], smtp_ok)

SpecRegister == InitOtp /\ [][NextRegister]_vars

\* the Mark requests sent while tokens rotate.  The request with t1, the
\* token office o1 starts with, is sent from outside the radius of o1, so a
\* record at o1 is one that a rotated token validated
RotateSamples ==
    { <<"u1", "t1", FixFar>>, <<"u1", "t5", FixNear>>,
      <<"u1", "t2", FixFar>> }

\* rotations of the tokens of the offices, and Mark requests served by one
\* worker
NextRotate ==
    \/ \E o \in Offices, token \in NewTokens : AdminGenerateOfficeQR(o, token)
    \/ \E a \in Actions, s \in RotateSamples :
          MarkValidate("p1", s[1], a, s[2], s[3])
    \/ MarkSelect("p1")
    \/ MarkCreate("p1")
    \/ AdvanceAtt

SpecRotate == InitAtt /\ [][NextRotate]_vars

\* the offline requests of the approval specification: a check-out alone at
\* office o2, a check-in alone at office o4, whose QR is inactive
ApprovalSamples ==
    OfflineSamples \cup
    { [user |-> "u1", office |-> "o4", date |-> 0,
       check_in_time |-> 9 * SecondsPerHour, check_out_time |-> NULL] }

\* no Mark request is between its validation and its commit
MarksIdle == \A p \in Procs : mark[p].pc = "idle"

\* Mark requests of u1 served by one worker, offline requests and their
\* decisions; a decision and a Mark request are served one after the other
NextApproval ==
    \/ AdvanceAtt
    \/ /\ decide.pc = "idle"
       /\ \/ \E action \in Actions :
                MarkValidate("p1", "u1", action, "t1", FixNear)
          \/ MarkSelect("p1")
          \/ MarkCreate("p1")
    \/ \E sample \in ApprovalSamples : OfflineCreate(sample)
    \/ /\ MarksIdle
       /\ \E r \in offline, status \in {"APPROVED", "REJECTED"} :
             DecideUpdate(r.id, status, "")
    \/ DecideGet
    \/ DecideInsert
    \/ DecideSave

SpecApproval == InitAtt /\ [][NextApproval]_vars

\* a row of the attendance table with the given check-in time of day
ReportSample(id, u, d, o, tod) ==
    [id |-> id, user |-> u, office |-> o, date |-> d,
     check_in_time |-> IF tod = NULL THEN NULL ELSE d * SecondsPerDay + tod,
     check_out_time |-> NULL,
     check_in_lat |-> NULL, check_in_lng |-> NULL, check_in_accuracy_m |-> NULL,
     check_out_lat |-> NULL, check_out_lng |-> NULL, check_out_accuracy_m |-> NULL,
     source |-> "ONLINE"]

\* the rows the tables of the report specification are made of: check-ins
\* at 10:00:00, 10:01:00, none, 10:00:30, 09:00:00, 10:01:00 (an admin) and
\* 12:00:00
ReportSamples ==
    { ReportSample(1, "u1", 0, "o1", OFFICE_START),
      ReportSample(2, "u1", 0, "o2", OFFICE_START + 60),
      ReportSample(3, "u1", 1, "o1", NULL),
      ReportSample(4, "u2", 0, "o2", OFFICE_START + 30),
      ReportSample(5, "u2", 1, "o1", 9 * SecondsPerHour),
      ReportSample(6, "u3", 0, "o1", OFFICE_START + 60),
      ReportSample(7, "u1", 6, "o1", 12 * SecondsPerHour) }

\* unique_together = ("user", "date")
UniquePerDay(rows) ==
    \A a, b \in rows : (a.user = b.user /\ a.date = b.date) => a = b

\* the ranges the admin asks for: from, to, days (no from and to: the last
\* `days` days, 7 without days)
ReportRanges ==
    { <<0, 6, NULL>>, <<0, 1, NULL>>, <<1, 1, 2>>, <<1, 0, NULL>>,
      <<NULL, NULL, NULL>>, <<NULL, NULL, 2>> }

\* any table of the samples; u3 is staff, u2 is a superuser or not
InitReport ==
    /\ now = 6 * SecondsPerDay
    /\ clock = 0
    /\ \E su \in BOOLEAN :
          users =
            [u \in Users |->
               [exists |-> TRUE, is_verified |-> TRUE, is_active |-> TRUE,
                password |-> "pw1", full_name |-> "",
                is_staff |-> (u = "u3"),
                is_superuser |-> (u = "u3" \/ (u = "u2" /\ su))]]
    /\ profiles = [u \in Users |-> ""]
    /\ otps = {}
    /\ outbox = {}
    /\ resp = NoResp
    /\ issue = IssueIdle
    /\ InitRegistry
    /\ attendance \in {t \in SUBSET ReportSamples : UniquePerDay(t)}
    /\ mark = [p \in Procs |-> MarkIdle]
    /\ reply = NoReply
    /\ offline = {}
    /\ decide = DecideIdle

NextReport ==
    \E g \in ReportRanges, ids \in {{}, {"u1"}, {"u2", "u3"}},
       office_id \in {"", "o1"} :
        AdminAttendanceReport(g[1], g[2], g[3], ids, office_id)

SpecReport == InitReport /\ [][NextReport]_vars

\* the coordinates the distance is measured between (1e-4 degree)
GeoLats == {286000, 286005, 286009, 286050}
GeoLngs == {771990, 772000, 772005}

\* two positions, not yet measured
InitGeo ==
    /\ now = 0
    /\ clock = 0
    /\ users = [u \in Users |-> NoUser]
    /\ profiles = [u \in Users |-> NoProfile]
    /\ otps = {}
    /\ outbox = {}
    /\ resp = NoResp
    /\ issue = IssueIdle
    /\ offices =
          [o \in Offices |->
             [latitude |-> Sites[o].latitude,
              longitude |-> Sites[o].longitude,
              allowed_radius_m |-> IF o = "o2" THEN 0 ELSE 100,
              is_active |-> o # "o3"]]
    /\ qrs =
          [o \in Offices |->
             [qr_token |-> CASE o = "o1" -> "t1" [] o = "o2" -> "t2"
                             [] o = "o3" -> "t3" [] OTHER -> "t4",
              is_active |-> o # "o4"]]
    /\ \E lat1 \in GeoLats, lon1 \in GeoLngs, lat2 \in GeoLats, lon2 \in GeoLngs :
          report = [op |-> "points", lat1 |-> lat1, lon1 |-> lon1,
                    lat2 |-> lat2, lon2 |-> lon2]
    /\ attendance = {}
    /\ mark = [p \in Procs |-> MarkIdle]
    /\ reply = NoReply
    /\ offline = {}
    /\ decide = DecideIdle

\* the distance of the two positions, measured each way
Measure ==
    /\ report.op = "points"
    /\ report' = [op |-> "distance", lat1 |-> report.lat1,
                  lon1 |-> report.lon1, lat2 |-> report.lat2,
                  lon2 |-> report.lon2,
                  dist |-> haversine_m(report.lat1, report.lon1,
                                       report.lat2, report.lon2),
                  back |-> haversine_m(report.lat2, report.lon2,
                                       report.lat1, report.lon1)]
    /\ UNCHANGED <<now, clock, authVars, offices, qrs, attVars>>

NextGeo == Measure

SpecGeo == InitGeo /\ [][NextGeo]_vars

\* the steps of the clock in the specification of concurrent issuance
MaxClockIssue == 3

\* u2 holds the code of its registration at instant 0; no worker is at work
InitIssue ==
    /\ now = 0
    /\ clock = 0
    /\ users =
          [u \in Users |->
             IF u = "u1" THEN NoUser
             ELSE [exists |-> TRUE, is_verified |-> u = "u3",
                   is_active |-> u = "u3", password |-> "pw1",
                   full_name |-> ""]]
    /\ profiles = [u \in Users |-> IF u = "u1" THEN NoProfile ELSE ""]
    /\ otps = {[id |-> 1, email |-> "u2",
                otp_hash |-> _hash_otp("111111", "s1"), salt |-> "s1",
                expires_at |-> OTP_EXPIRY_MINUTES * 60, is_used |-> FALSE,
                created_at |-> 0, last_sent_at |-> 0]}
    /\ outbox = {[to |-> "u2", otp |-> "111111", otp_id |-> 1]}
    /\ resp = NoResp
    /\ issue = [p \in Procs |-> IssueIdle]
    /\ InitRegistry
    /\ attendance = {}
    /\ mark = [p \in Procs |-> MarkIdle]
    /\ reply = NoReply
    /\ offline = {}
    /\ decide = DecideIdle

NextIssue ==
    \/ AdvanceOtp(30, MaxClockIssue)
    \/ \E p \in Procs :
          \/ RegisterRead(p, "u2", "pw2", "", "", "222222", "s2")
          \/ \E email \in {"u1", "u2", "u3"} :
                ResendRead(p, email, "222222", "s2")
          \/ \E smtp_ok \in BOOLEAN : IssueInsert(p, smtp_ok)

SpecIssue == InitIssue /\ [][NextIssue]_vars

(***************************************************************************)
(* The claims about the attendance state machine.                          *)
(***************************************************************************)
\* the transaction of worker p ends in this step
MarkEnds(p) == mark[p].pc = "tx" /\ mark'[p].pc = "idle"

\* the day's record of the request worker p serves, as stored now
DayRows(p) == AttendanceOf(mark[p].user, mark[p].today)

\* C1: two concurrent CHECKINs of a user on a day without a record
\* serialize: a CHECKIN whose transaction began when the day had no record
\* ends CHECKED_IN, storing its own time and position, when it is the first
\* to write, and ends ALREADY_CHECKED_IN, changing nothing, when the other
\* request has stored the record meanwhile; it never ends in an error.
C1_ConcurrentCheckinsSerialize ==
    [][\A p \in Procs :
         (MarkEnds(p) /\ mark[p].action = "CHECKIN" /\ mark[p].attendance.id = 0)
         => IF DayRows(p) = {}
            THEN /\ reply'.status = "CHECKED_IN"
                 /\ \E r \in attendance' \ attendance :
                       /\ r.check_in_time = mark[p].now
                       /\ r.check_in_lat = mark[p].lat
                       /\ r.check_in_lng = mark[p].lng
            ELSE /\ reply'.status = "ALREADY_CHECKED_IN"
                 /\ attendance' = attendance]_vars

\* C1's failing case: the second of two concurrent CHECKINs was answered
\* with the database's integrity error while the first's record is stored
C1_Witness ==
    /\ reply.status = "INTEGRITY_ERROR"
    /\ \E r \in attendance : r.source = "ONLINE" /\ r.check_in_time # NULL

\* C2: a CHECKIN that finds the day's record with a check-in time returns
\* ALREADY_CHECKED_IN and leaves the table, hence the record's check-in
\* time, coordinates, accuracy, office and source, as it was.
C2_SecondCheckinIsNoOp ==
    [][\A p \in Procs :
         (/\ MarkEnds(p)
          /\ mark[p].action = "CHECKIN"
          /\ mark[p].attendance.id # 0
          /\ \E r \in DayRows(p) : r.check_in_time # NULL)
         => /\ reply'.status = "ALREADY_CHECKED_IN"
            /\ attendance' = attendance]_vars

\* C2's case: a second CHECKIN was answered ALREADY_CHECKED_IN at an instant
\* later than the stored check-in
C2_Witness ==
    /\ reply.status = "ALREADY_CHECKED_IN"
    /\ \E r \in attendance : r.check_in_time # NULL /\ r.check_in_time < now

\* C3: a CHECKOUT when the user has no record for today, or a record
\* without a check-in time, fails with the must-check-in-first error and
\* leaves the table as it was.
C3_CheckoutBeforeCheckinFails ==
    [][\A p \in Procs :
         (/\ MarkEnds(p)
          /\ mark[p].action = "CHECKOUT"
          /\ \A r \in DayRows(p) : r.check_in_time = NULL)
         => /\ reply'.status = "MUST_CHECKIN_FIRST"
            /\ attendance' = attendance]_vars

\* C3's case: the error was returned while the day's record exists without
\* a check-in time
C3_Witness ==
    /\ reply.status = "MUST_CHECKIN_FIRST"
    /\ \E r \in attendance :
          r.date = localdate(now) /\ r.check_in_time = NULL

\* the state of a (user, date): 0 NONE, 1 CHECKED_IN, 2 CHECKED_OUT
Rank(rows) ==
    IF rows = {} THEN 0
    ELSE IF \E r \in rows : r.check_out_time # NULL THEN 2
    ELSE 1

Dates == 0 .. (MaxClockAtt + 1)

\* C4: under Mark requests alone the state of a (user, date) only moves
\* forward, a record with a check-out time is never modified again, and a
\* request that finds it returns ALREADY_CHECKED_OUT (CHECKOUT) or
\* ALREADY_CHECKED_IN (CHECKIN).
C4_CheckedOutIsTerminal ==
    [][/\ \A u \in Users, d \in Dates :
            Rank({r \in attendance' : r.user = u /\ r.date = d})
              >= Rank(AttendanceOf(u, d))
       /\ \A r \in attendance : r.check_out_time # NULL => r \in attendance'
       /\ \A p \in Procs :
            (/\ MarkEnds(p)
             /\ mark[p].attendance \in attendance
             /\ mark[p].attendance.check_out_time # NULL)
            => reply'.status = IF mark[p].action = "CHECKOUT"
                               THEN "ALREADY_CHECKED_OUT"
                               ELSE "ALREADY_CHECKED_IN"]_vars

\* C4's case: a request was answered ALREADY_CHECKED_OUT
C4_Witness ==
    /\ reply.status = "ALREADY_CHECKED_OUT"
    /\ \E r \in attendance : r.check_out_time # NULL /\ r.check_out_time < now

\* C5: at most one attendance record per (user, date).
C5_OneRecordPerUserDay ==
    \A r1 \in attendance, r2 \in attendance :
        (r1.user = r2.user /\ r1.date = r2.date) => r1 = r2

\* C5's case: a second INSERT for the (user, date) was refused while a
\* record the approval wrote is stored
C5_Witness ==
    /\ reply.status = "INTEGRITY_ERROR"
    /\ \E r \in attendance : r.source = "OFFLINE"

\* worker p takes the request (action, s) in this step: it passes validation
\* as that request, or a response is given
MarkTakes(p, action, s) ==
    /\ mark[p].pc = "idle"
    /\ IF mark'[p].pc = "validated"
       THEN /\ mark'[p].user = s[1]
            /\ mark'[p].action = action
            /\ mark'[p].qr_token = s[2]
            /\ mark'[p].lat = s[3].lat
            /\ mark'[p].lng = s[3].lng
       ELSE reply'.status # ""

\* the account is verified and active
AccountOk(u) == users[u].is_verified /\ users[u].is_active

\* the token is the token of an active OfficeQR of an active office
TokenOk(token) ==
    \E o \in Offices :
        qrs[o].qr_token = token /\ qrs[o].is_active /\ offices[o].is_active

\* C6: a Mark request gets past validation only with a verified, active
\* account and the token of an active QR of an active office; otherwise it
\* is rejected with nothing changed; and only a request past validation
\* writes the table.
C6_OnlyValidRequestsWrite ==
    [][/\ \A p \in Procs :
            /\ (mark[p].pc = "idle" /\ mark'[p].pc # "idle")
               => /\ mark'[p].pc = "validated"
                  /\ AccountOk(mark'[p].user)
                  /\ TokenOk(mark'[p].qr_token)
                  /\ attendance' = attendance
            /\ mark'[p].pc = "tx" => mark[p].pc \in {"validated", "tx"}
       /\ \A p \in Procs, action \in Actions, s \in MarkSamples :
            (/\ MarkTakes(p, action, s)
             /\ ~(AccountOk(s[1]) /\ TokenOk(s[2]))
             /\ MarkValidate(p, s[1], action, s[2], s[3]))
            => /\ reply'.status \in {"NOT_VERIFIED", "INACTIVE", "INVALID_QR"}
               /\ mark' = mark
               /\ attendance' = attendance
       /\ attendance' # attendance => \E p \in Procs : MarkEnds(p)]_vars

\* C6's case: a request with a bad token was rejected while a record a valid
\* request wrote is stored
C6_Witness ==
    /\ reply.status = "INVALID_QR"
    /\ attendance # {}

\* C7: past the account and token checks, a request is accepted exactly when
\* the distance to the token's office is at most the office's radius;
\* beyond it the request is rejected with the measured and the allowed
\* distance, nothing changed.
C7_GeofenceRadiusInclusive ==
    [][\A p \in Procs, action \in Actions, s \in MarkSamples :
         (/\ MarkTakes(p, action, s)
          /\ AccountOk(s[1]) /\ TokenOk(s[2])
          /\ MarkValidate(p, s[1], action, s[2], s[3]))
         => LET o == CHOOSE x \in Offices : qrs[x].qr_token = s[2]
                d == haversine_m(s[3].lat, s[3].lng, offices[o].latitude,
                                 offices[o].longitude)
            IN  IF d <= offices[o].allowed_radius_m * 1000
                THEN /\ mark'[p].pc = "validated"
                     /\ mark'[p].office = o
                ELSE /\ reply'.status = "OUT_OF_RANGE"
                     /\ reply'.detail = <<d \div 1000,
                                          offices[o].allowed_radius_m>>
                     /\ mark' = mark
                     /\ attendance' = attendance]_vars

\* C7's case: a request at a distance equal to the radius is past validation
C7_Witness ==
    \E p \in Procs :
        /\ mark[p].pc = "validated"
        /\ mark[p].distance_m = offices[mark[p].office].allowed_radius_m * 1000

(***************************************************************************)
(* The claims about OTP issuance and verification.                         *)
(***************************************************************************)
\* this step serves an issuance request (Register or Resend) for email e
Issuance(e) == resp'.op \in {"register", "resend"} /\ resp'.email = e

\* the account of e can be sent a code by the request this step serves
Issuable(e) ==
    IF resp'.op = "register"
    THEN ~(users[e].exists /\ users[e].is_verified)
    ELSE users[e].exists /\ ~users[e].is_verified

\* the instant the latest code of e was issued, or NULL
LastIssued(e) ==
    IF OtpsOf(e) = {} THEN NULL
    ELSE CHOOSE t \in {r.created_at : r \in OtpsOf(e)} :
            \A r \in OtpsOf(e) : r.created_at <= t

\* C8: an issuance (Register or Resend) for an email less than
\* cooldown_seconds after the latest code of that email was issued stores
\* no code and sends no e-mail, and, the account being one a code can be
\* sent to, is rejected as rate-limited with the seconds left to wait.
C8_CooldownRejects ==
    [][\A e \in Users :
         (/\ Issuance(e)
          /\ LastIssued(e) # NULL
          /\ now - LastIssued(e) < OTP_RESEND_COOLDOWN_SECONDS)
         => /\ otps' = otps
            /\ outbox' = outbox
            /\ users' = users
            /\ resp'.status \notin {"OTP_SENT", "EMAIL_FAILED"}
            /\ Issuable(e)
                 => /\ resp'.status = "COOLDOWN"
                    /\ resp'.wait = OTP_RESEND_COOLDOWN_SECONDS
                                       - (now - LastIssued(e))]_vars

\* C8's case: a Resend 30 seconds after the Register that issued the only
\* code of u1 was rejected by the cooldown
C8_Witness ==
    /\ resp.op = "resend"
    /\ resp.email = "u1"
    /\ resp.status = "COOLDOWN"
    /\ resp.wait = 30
    /\ Cardinality(OtpsOf("u1")) = 1

\* the codes of e issued in the 60 minutes that end at instant t
IssuedInHour(e, t) ==
    {r \in otps : r.email = e /\ r.created_at <= t
                  /\ t - r.created_at <= SecondsPerHour}

\* C9: an issuance for an email with max_per_hour codes already issued in
\* the trailing 60 minutes is rejected as rate-limited, by the hourly cap
\* when the cooldown has elapsed, storing no code and sending no e-mail; and
\* no 60-minute window ever holds more than max_per_hour codes of an email.
C9_HourlyCapRejects ==
    /\ [](\A r \in otps :
            Cardinality(IssuedInHour(r.email, r.created_at))
              <= OTP_MAX_SEND_PER_HOUR)
    /\ [][\A e \in Users :
            (/\ Issuance(e)
             /\ Issuable(e)
             /\ Cardinality(IssuedInHour(e, now)) >= OTP_MAX_SEND_PER_HOUR)
            => /\ otps' = otps
               /\ outbox' = outbox
               /\ resp'.status \in {"COOLDOWN", "HOURLY_LIMIT"}
               /\ now - LastIssued(e) >= OTP_RESEND_COOLDOWN_SECONDS
                    => resp'.status = "HOURLY_LIMIT"]_vars

\* C9's case: the sixth issuance of an hour was rejected by the cap with the
\* cooldown elapsed
C9_Witness ==
    /\ resp.op \in {"register", "resend"}
    /\ resp.status = "HOURLY_LIMIT"
    /\ Cardinality(IssuedInHour(resp.email, now)) = OTP_MAX_SEND_PER_HOUR
    /\ now - LastIssued(resp.email) >= OTP_RESEND_COOLDOWN_SECONDS

\* the unused codes of e
Unused(e) == {r \in otps : r.email = e /\ ~r.is_used}

\* C10: a Verify for an unverified account answers NOT_FOUND without an
\* unused code, else EXPIRED when the latest unused code has expired,
\* whatever the digits, else INVALID when the digits do not match; each of
\* the three leaves the account and the codes as they were.
C10_ExpiredCodeRejected ==
    [][\A e \in Users :
         (/\ resp'.op = "verify"
          /\ resp'.email = e
          /\ users[e].exists
          /\ ~users[e].is_verified)
         => LET latest == LatestOtp(Unused(e))
            IN  /\ Unused(e) = {} => resp'.status = "OTP_NOT_FOUND"
                /\ (Unused(e) # {} /\ now > latest.expires_at)
                     => resp'.status = "OTP_EXPIRED"
                /\ (/\ Unused(e) # {}
                    /\ now <= latest.expires_at
                    /\ <<resp'.otp, latest.salt>> # latest.otp_hash)
                     => resp'.status = "OTP_INVALID"
                /\ resp'.status \in {"OTP_NOT_FOUND", "OTP_EXPIRED",
                                      "OTP_INVALID"}
                     => users' = users /\ otps' = otps]_vars

\* C10's case: a Verify with the digits of the latest unused code, expired,
\* was answered EXPIRED
C10_Witness ==
    /\ resp.op = "verify"
    /\ resp.status = "OTP_EXPIRED"
    /\ ~users[resp.email].is_verified
    /\ LET latest == LatestOtp(Unused(resp.email))
       IN  /\ latest # NoRow
           /\ now > latest.expires_at
           /\ <<resp.otp, latest.salt>> = latest.otp_hash

\* the used codes of e
Used(e) == {r \in otps : r.email = e /\ r.is_used}

\* C11: after a Verify has succeeded with a code of an email, a later Verify
\* of that email presenting the same digits fails, with NOT_FOUND or
\* INVALID.
C11_ReplayFails ==
    [][\A e \in Users :
         (/\ resp'.op = "verify"
          /\ resp'.email = e
          /\ \E r \in Used(e) : <<resp'.otp, r.salt>> = r.otp_hash)
         => resp'.status \in {"OTP_NOT_FOUND", "OTP_INVALID"}]_vars

\* C11's failing case: the digits of a used code were presented again and
\* the Verify answered with success
C11_Witness ==
    /\ resp.op = "verify"
    /\ resp.status = "OK_ALREADY_VERIFIED"
    /\ \E r \in Used(resp.email) : <<resp.otp, r.salt>> = r.otp_hash

\* an unused, unexpired code of e older than the newest code of e, whose
\* digits, not those of the newest code, are the digits otp
Superseded(e, otp) ==
    LET newest == LatestOtp(OtpsOf(e))
    IN  \E r \in Unused(e) :
           /\ r.created_at < newest.created_at
           /\ now <= r.expires_at
           /\ <<otp, r.salt>> = r.otp_hash
           /\ newest.otp_hash[1] # otp

\* C12: once a newer code has been issued for an email, a Verify of the
\* unverified account presenting the digits of an older, unused, unexpired
\* code (not the newest code's digits) fails and leaves the account
\* unverified and the codes unused.
C12_OnlyNewestCodeTrusted ==
    [][\A e \in Users :
         (/\ resp'.op = "verify"
          /\ resp'.email = e
          /\ users[e].exists
          /\ ~users[e].is_verified
          /\ Superseded(e, resp'.otp))
         => /\ resp'.status \in {"OTP_NOT_FOUND", "OTP_EXPIRED", "OTP_INVALID"}
            /\ users' = users
            /\ otps' = otps]_vars

\* C12's case: the digits of a superseded code were presented and refused
C12_Witness ==
    /\ resp.op = "verify"
    /\ resp.status = "OTP_INVALID"
    /\ ~users[resp.email].is_verified
    /\ Superseded(resp.email, resp.otp)

\* a flag of the account e goes from false to true in this step
FlagRaised(e) ==
    \/ ~users[e].is_verified /\ users'[e].is_verified
    \/ ~users[e].is_active /\ users'[e].is_active

\* otp is the code of the unused row of e created last, and that row has
\* not expired
MatchesNewest(e, otp) ==
    \E o \in Unused(e) :
        /\ \A x \in Unused(e) : x.created_at <= o.created_at
        /\ now <= o.expires_at
        /\ o.otp_hash = <<otp, o.salt>>
        /\ [o EXCEPT !.is_used = TRUE] \in otps'

\* C13: among Register, Resend, Verify, login and Mark, a step raises the
\* verified or the active flag of an account only when it is a Verify of that
\* account whose candidate matches the newest unused, unexpired code; that
\* step sets both flags and marks the code used.  A Register that is accepted
\* leaves both flags of the account false.
C13_OnlyVerifyRaisesFlags ==
    [][\A e \in Users :
         /\ FlagRaised(e) =>
               /\ resp'.op = "verify" /\ resp'.email = e
               /\ resp'.status = "VERIFIED"
               /\ MatchesNewest(e, resp'.otp)
               /\ users'[e].is_verified /\ users'[e].is_active
         /\ (/\ resp'.op = "register" /\ resp'.email = e
             /\ resp'.status \in {"OTP_SENT", "EMAIL_FAILED"}
             /\ otps' # otps) =>
               ~users'[e].is_verified /\ ~users'[e].is_active]_vars

\* a Verify has just raised both flags of an account that registered here
C13_Witness ==
    /\ resp.op = "verify" /\ resp.status = "VERIFIED"
    /\ users[resp.email].is_verified /\ users[resp.email].is_active
    /\ users[resp.email].password = "pw2"
    /\ \E r \in Used(resp.email) : r.otp_hash = <<resp.otp, r.salt>>

\* C14: a login is answered with a token only when the account exists, the
\* password is the account's and the account is both verified and active.
C14_TokenOnlyWhenVerifiedAndActive ==
    [][(resp'.op = "login" /\ resp'.status = "TOKEN") =>
          /\ users[resp'.email].exists
          /\ users[resp'.email].is_verified
          /\ users[resp'.email].is_active
          /\ users' = users]_vars

\* a login was answered with a token after the account had been refused
\* codes: a used code and an unused one are stored for it
C14_Witness ==
    /\ resp.op = "login" /\ resp.status = "TOKEN"
    /\ Used(resp.email) # {}
    /\ Cardinality(OtpsOf(resp.email)) > 1

\* C15: every message dispatched carries a code whose row is stored: the
\* message leaves only after the transaction that stored the hash has
\* committed.
C15_MailOnlyAfterCommit ==
    \A m \in outbox :
        \E r \in otps : r.id = m.otp_id /\ r.email = m.to
                          /\ r.otp_hash = <<m.otp, r.salt>>

\* a message has left for a code of a transaction that is still open
C15_Witness ==
    /\ issue.pc = "sent"
    /\ OtpMail(issue.row, issue.otp) \in outbox
    /\ issue.row \notin otps

\* C16: an issuance that reports the failure of the delivery has stored its
\* row, unused, and the account of the email exists.
C16_FailedDeliveryKeepsRow ==
    [][\A e \in Users :
         (resp'.status = "EMAIL_FAILED" /\ resp'.email = e) =>
            /\ \E r \in otps' \ otps : r.email = e /\ ~r.is_used
                                          /\ r.created_at = now
            /\ users'[e].exists]_vars

\* a delivery has failed and the response reports it
C16_Witness ==
    /\ resp.status = "EMAIL_FAILED"
    /\ \A r \in OtpsOf(resp.email) : r.created_at < now

\* C17: a Register request that the cooldown or the hourly cap rejects
\* leaves no write behind: the account row, the profile, the OTP rows and
\* the messages sent are as before the request.
C17_RejectedRegisterWritesNothing ==
    [][(resp'.op = "register" /\ resp'.status \in {"COOLDOWN", "HOURLY_LIMIT"})
          => /\ users' = users
             /\ profiles' = profiles
             /\ otps' = otps
             /\ outbox' = outbox]_vars
\* the hourly cap has rejected a re-registration of the account u2, which
\* an earlier, accepted registration left with the second body
C17_Witness ==
    /\ resp.op = "register" /\ resp.email = "u2"
    /\ resp.status = "HOURLY_LIMIT"
    /\ users["u2"].password = "pw2" /\ profiles["u2"] = "ph2"
    /\ Cardinality(IssuedInHour("u2", now)) >= OTP_MAX_SEND_PER_HOUR

\* the tokens a request may carry
AllTokens == Tokens \cup NewTokens

\* the tokens that validate for office o: an active QR of the active office
Validating(o) ==
    {t \in AllTokens : qrs[o].qr_token = t /\ qrs[o].is_active
                          /\ offices[o].is_active}

\* C18: a rotation of the token of an office leaves the old token validating
\* for no office and the new token validating for that office; a Mark
\* request that starts with a token that is the current token of no office
\* (every token rotated away) is rejected as an invalid token; and at every
\* moment an office has at most one token that validates, a token at most
\* one office.
C18_RotationRetiresOldToken ==
    /\ [](\A o \in Offices : Cardinality(Validating(o)) <= 1)
    /\ [](\A o1, o2 \in Offices :
             (o1 # o2) => Validating(o1) \cap Validating(o2) = {})
    /\ [][\A o \in Offices :
            (qrs'[o] # qrs[o]) =>
               /\ qrs'[o].qr_token # qrs[o].qr_token
               /\ Validating(o)' = {qrs'[o].qr_token}
               /\ \A x \in Offices : qrs[o].qr_token \notin Validating(x)']_vars
    /\ [][\A a \in Actions, s \in RotateSamples :
            (/\ MarkTakes("p1", a, s)
             /\ MarkValidate("p1", s[1], a, s[2], s[3])
             /\ AccountOk(s[1]))
            => IF \E o \in Offices : s[2] \in Validating(o)
               THEN reply'.status # "INVALID_QR"
               ELSE reply'.status = "INVALID_QR" /\ mark' = mark]_vars

\* the token of office o1 was rotated, a Mark request with the new token
\* checked in at o1, and then a request with a token rotated away was
\* rejected as an invalid token
C18_Witness ==
    /\ reply.status = "INVALID_QR"
    /\ qrs["o1"].qr_token \in NewTokens
    /\ \E r \in attendance : r.office = "o1" /\ r.check_in_time # NULL

\* the record of (u, d) before the approval wrote, or a new record's values
Before(u, d) ==
    IF AttendanceOf(u, d) = {} THEN NewAttendance(u, "", d)
    ELSE FirstRow(AttendanceOf(u, d))

\* the offline request that is decided in this step, with its new status
Decided(r) ==
    /\ r \in offline'
    /\ \E q \in offline : q.id = r.id /\ q # r

\* C19: when an approval of an offline request has written, there is exactly
\* one attendance record of the request's (user, date); its source is
\* OFFLINE and its office the request's office; its check-in and check-out
\* times are the request's where the request supplies them and the values
\* the record had where it does not; nothing else of the table changes.  No
\* token or position is looked at.  A rejection leaves the table as it was,
\* and starts no write.
C19_ApprovalUpsertsOneRecord ==
    [][/\ (decide.pc = "save" /\ decide'.pc = "idle") =>
            LET req == decide.req
                old == Before(req.user, req.date)
                rows == {r \in attendance' : r.user = req.user
                                              /\ r.date = req.date}
            IN  /\ Cardinality(rows) = 1
                /\ \A r \in rows :
                      /\ r.source = "OFFLINE"
                      /\ r.office = req.office
                      /\ r.check_in_time =
                            IF req.check_in_time # NULL
                            THEN req.check_in_time ELSE old.check_in_time
                      /\ r.check_out_time =
                            IF req.check_out_time # NULL
                            THEN req.check_out_time ELSE old.check_out_time
                      /\ r.check_in_lat = old.check_in_lat
                      /\ r.check_out_lat = old.check_out_lat
                /\ attendance' \ rows = attendance \ AttendanceOf(req.user,
                                                                  req.date)
       /\ \A r \in offline' :
            (Decided(r) /\ r.status = "REJECTED") =>
               attendance' = attendance /\ decide'.pc = "idle"
       /\ \A r \in offline' :
            (Decided(r) /\ r.status = "APPROVED") =>
               /\ decide'.pc = "get" /\ decide'.req = r
               /\ attendance' = attendance]_vars

\* an approved request that supplies the check-out alone has been written
\* into the record a Mark CHECKIN had made at office o1: the check-in of
\* Mark is kept, the office and the source are the request's
C19_Witness ==
    /\ decide.pc = "idle"
    /\ \E q \in offline : q.status = "APPROVED" /\ q.office = "o2"
    /\ \E r \in attendance :
          /\ r.user = "u1" /\ r.office = "o2" /\ r.source = "OFFLINE"
          /\ r.check_in_lat # NULL /\ r.check_in_time # NULL
          /\ r.check_out_time = 18 * SecondsPerHour

\* C20: a request that is PENDING has no decider and no decision time; a
\* request never returns to PENDING; and a decide call on a request that is
\* already APPROVED or REJECTED rewrites neither its status nor its decision
\* metadata.
C20_DecidedOnce ==
    /\ [](\A r \in offline :
            r.status = "PENDING" => r.decided_by = "" /\ r.decided_at = NULL)
    /\ [][\A r \in offline :
            r.status # "PENDING" => r \in offline']_vars

\* a request that was approved, and written into the attendance table, has
\* been decided again: it is REJECTED now, with a later decision time
C20_Witness ==
    \E r \in offline :
        /\ r.status = "REJECTED" /\ r.decided_at > 0
        /\ \E a \in attendance : a.user = r.user /\ a.date = r.date
                                   /\ a.source = "OFFLINE"

\* C21: in every state, an attendance record with both a check-in and a
\* check-out time has a check-out time not earlier than its check-in time.
C21_CheckoutNotBeforeCheckin ==
    \A r \in attendance :
        (r.check_in_time # NULL /\ r.check_out_time # NULL)
           => r.check_out_time >= r.check_in_time
\* a record stands with a check-out earlier than its check-in
C21_Witness ==
    \E r \in attendance :
        /\ r.check_in_time # NULL /\ r.check_out_time # NULL
        /\ r.check_out_time < r.check_in_time
        /\ r.source = "OFFLINE" /\ r.check_out_lat # NULL

\* C22: a Mark CHECKIN answered CHECKED_IN leaves the day's record with the
\* check-in time the request read as now, the submitted coordinates and
\* accuracy, the token's office and source ONLINE, whether the request
\* created the record or found it without a check-in time.
C22_CheckinWritesOnlineRecord ==
    [][\A p \in Procs :
         (/\ mark[p].pc = "tx" /\ mark'[p].pc = "idle"
          /\ reply'.status = "CHECKED_IN") =>
            \E r \in attendance' :
                /\ r.id = reply'.attendance_id
                /\ r.user = mark[p].user /\ r.date = mark[p].today
                /\ r.check_in_time = mark[p].now
                /\ r.check_in_lat = mark[p].lat
                /\ r.check_in_lng = mark[p].lng
                /\ r.check_in_accuracy_m = mark[p].accuracy_m
                /\ r.office = mark[p].office
                /\ r.source = "ONLINE"]_vars

\* a CHECKIN has been answered CHECKED_IN on a record an offline approval
\* had made without a check-in time
C22_Witness ==
    /\ reply.status = "CHECKED_IN"
    /\ \E r \in attendance :
          /\ r.id = reply.attendance_id
          /\ r.check_in_lat # NULL
          /\ r.check_out_time = 18 * SecondsPerHour
          /\ r.check_out_lat = NULL

\* C23: a Mark CHECKOUT on a record with a check-in and no check-out is
\* answered CHECKED_OUT whatever office its valid token belongs to; the
\* write sets the check-out time, coordinates and accuracy and leaves the
\* office, the check-in fields and the source of the record, and every
\* other record, as they were.
C23_CheckoutWritesOnlyCheckout ==
    [][\A p \in Procs :
         (/\ mark[p].pc = "tx" /\ mark'[p].pc = "idle"
          /\ mark[p].action = "CHECKOUT") =>
            LET m == mark[p]
                rows == AttendanceOf(m.user, m.today)
            IN  /\ (\E r \in rows : r.check_in_time # NULL
                                      /\ r.check_out_time = NULL)
                      <=> reply'.status = "CHECKED_OUT"
                /\ reply'.status = "CHECKED_OUT" =>
                      \E r \in rows :
                          /\ reply'.attendance_id = r.id
                          /\ attendance' = (attendance \ {r}) \cup
                                {[r EXCEPT !.check_out_time = m.now,
                                           !.check_out_lat = m.lat,
                                           !.check_out_lng = m.lng,
                                           !.check_out_accuracy_m =
                                               m.accuracy_m]}
                /\ reply'.status # "CHECKED_OUT" =>
                      attendance' = attendance]_vars

\* a record checked in at office o1 has been checked out with the token of
\* office o2, at the site of o2
C23_Witness ==
    /\ reply.status = "CHECKED_OUT"
    /\ \E r \in attendance :
          /\ r.id = reply.attendance_id
          /\ r.office = "o1" /\ r.check_in_lat = FixNear.lat
          /\ r.check_out_lat = FixFar.lat
          /\ r.source = "ONLINE"

(***************************************************************************)
(* The claims about the admin attendance report.                           *)
(***************************************************************************)
\* the non-admin accounts
NonAdmin == {u \in Users : users[u].exists /\ ~users[u].is_staff
                                           /\ ~users[u].is_superuser}

\* the calendar days of the range of the last report
RangeDays == {d \in 0..6 : report.from <= d /\ d <= report.to}

\* the days of the range with a record of u (at the office asked for, when
\* the report is filtered by office)
RecordDays(u) ==
    {d \in RangeDays :
        \E a \in attendance :
            /\ a.user = u /\ a.date = d
            /\ (report.office_id # "" => a.office = report.office_id)}

\* C24: the report lists exactly the non-admin accounts (those of the user
\* filter when one is given); for each of them total_days is the number of
\* calendar days of the range, present_days the number of those days with
\* an attendance record of the user, absent_days the rest and late_days at
\* most present_days; a user without records in a 7-day range gets 0 present
\* and 7 absent days.
C24_ReportCountsDays ==
    report.op = "report" =>
        /\ DOMAIN report.summary =
              {u \in NonAdmin : report.user_ids # {} => u \in report.user_ids}
        /\ (report.user_ids = {} => DOMAIN report.summary = NonAdmin)
        /\ \A u \in DOMAIN report.summary :
              LET s == report.summary[u]
              IN  /\ s.total_days = Cardinality(RangeDays)
                  /\ s.present_days = Cardinality(RecordDays(u))
                  /\ s.present_days + s.absent_days = s.total_days
                  /\ s.late_days <= s.present_days
                  /\ ((~ \E a \in attendance : a.user = u)
                        /\ report.to - report.from = 6)
                       => (s.present_days = 0 /\ s.absent_days = 7)

\* an unfiltered report of days 0..6 that counts three present days of u1,
\* none of u2, and leaves the staff account u3 with a record out
C24_Witness ==
    /\ report.op = "report" /\ report.user_ids = {} /\ report.office_id = ""
    /\ report.from = 0 /\ report.to = 6
    /\ DOMAIN report.summary = {"u1", "u2"}
    /\ \E a \in attendance : a.user = "u3"
    /\ report.summary["u1"].present_days = 3
    /\ report.summary["u1"].absent_days = 4
    /\ report.summary["u1"].late_days = 2
    /\ report.summary["u2"].present_days = 0
    /\ report.summary["u2"].absent_days = 7

\* the report row of the last report for user u and day d
RowOf(u, d) == CHOOSE r \in report.rows : r.user = u /\ r.date = d

\* C25: the lateness of a report row is the number of whole minutes by
\* which the time of day of the check-in exceeds 10:00:00; it is 0 for a
\* check-in at or before 10:00:00, for a record without check-in and for
\* an ABSENT day, never negative, and a day counts as late exactly when its
\* lateness is greater than 0.
C25_LatenessWholeMinutes ==
    report.op = "report" =>
        /\ \A r \in report.rows :
              LET over == (r.check_in_time % SecondsPerDay) - 10 * 3600
              IN  /\ r.late_minutes >= 0
                  /\ r.status = "ABSENT" => r.late_minutes = 0
                  /\ r.check_in_time = NULL => r.late_minutes = 0
                  /\ (r.check_in_time # NULL /\ over <= 0)
                        => r.late_minutes = 0
                  /\ (r.check_in_time # NULL /\ over > 0)
                        => /\ r.late_minutes * 60 <= over
                           /\ over < (r.late_minutes + 1) * 60
                  /\ r.status = "PRESENT" =>
                        \E a \in attendance :
                            /\ a.user = r.user /\ a.date = r.date
                            /\ a.check_in_time = r.check_in_time
        /\ \A u \in DOMAIN report.summary :
              report.summary[u].late_days =
                  Cardinality({d \in RangeDays : RowOf(u, d).late_minutes > 0})

\* a report with a check-in at 10:00:30 that is not late, one at 10:01:00
\* that is 1 minute late, one at 12:00:00 that is 120 minutes late and a
\* record without check-in
C25_Witness ==
    /\ report.op = "report"
    /\ \E r \in report.rows :
          /\ r.check_in_time % SecondsPerDay = 10 * 3600 + 30
          /\ r.late_minutes = 0
    /\ \E r \in report.rows :
          /\ r.check_in_time % SecondsPerDay = 10 * 3600 + 60
          /\ r.late_minutes = 1
    /\ \E r \in report.rows : r.late_minutes = 120
    /\ \E r \in report.rows :
          r.status = "PRESENT" /\ r.check_in_time = NULL
    /\ report.summary["u1"].late_days = 2
    /\ report.summary["u2"].late_days = 0

(***************************************************************************)
(* The claim about the geo distance calculator.                            *)
(***************************************************************************)
\* C26: the distance is symmetric, distance(a, b) = distance(b, a), and
\* zero on identical points, distance(a, a) = 0.
C26_DistanceSymmetricZero ==
    report.op = "distance" =>
        /\ report.dist = report.back
        /\ (report.lat1 = report.lat2 /\ report.lon1 = report.lon2)
              => report.dist = 0

\* a measured pair of positions that differ in latitude and longitude and
\* lie 55 to 75 metres apart
C26_Witness ==
    /\ report.op = "distance"
    /\ report.lat1 < report.lat2 /\ report.lon1 > report.lon2
    /\ report.dist > 55000 /\ report.dist < 75000
    /\ report.back = report.dist

(***************************************************************************)
(* The claim about concurrent issuance.                                    *)
(***************************************************************************)
\* the codes of one email created less than the cooldown apart
CloseCodes ==
    {pair \in otps \X otps :
        /\ pair[1].id < pair[2].id /\ pair[1].email = pair[2].email
        /\ pair[2].created_at - pair[1].created_at
              < OTP_RESEND_COOLDOWN_SECONDS
        /\ pair[1].created_at - pair[2].created_at
              < OTP_RESEND_COOLDOWN_SECONDS}

\* C27: issuance takes no lock on the codes: a request that passed the
\* cooldown check on its own read stores its code whatever has been stored
\* since, so two requests that both read the same newest code both store a
\* code, less than the cooldown apart.
C27_IssuanceStoresAfterOwnRead ==
    [][\A p \in Procs :
          (issue[p].pc = "insert" /\ issue'[p].pc = "idle") =>
              \E r \in otps' \ otps :
                  /\ r.email = issue[p].email
                  /\ r.otp_hash = issue[p].row.otp_hash
                  /\ r.created_at = now
                  /\ r.last_sent_at = issue[p].row.last_sent_at]_vars

\* two codes of u2 stored by requests that read at the same instant, one
\* by Register and one by Resend or both by Resend, less than the cooldown
\* apart, while the code of instant 0 is older than the cooldown
C27_Witness ==
    \E pair \in CloseCodes :
        /\ pair[1].email = "u2"
        /\ pair[1].last_sent_at = pair[2].last_sent_at
        /\ pair[1].last_sent_at >= OTP_RESEND_COOLDOWN_SECONDS
        /\ pair[2].created_at > pair[1].created_at
        /\ \A p \in Procs : issue[p].pc = "idle"

(***************************************************************************)
(* The claims about Mark requests that overlap admin operations.           *)
(***************************************************************************)
\* the check-in times the approved offline requests of u for day d supply
SuppliedCheckIns(u, d) ==
    {q.check_in_time : q \in {x \in offline' : /\ x.user = u /\ x.date = d
                                                /\ x.status = "APPROVED"
                                                /\ x.check_in_time # NULL}}

\* C28: once a check-in time is committed for a (user, date), no
\* interleaving of Mark requests with an offline approval for the same
\* (user, date) leaves the record with an empty check-in time or replaces
\* the time with a value the approved request did not supply.
C28_CheckinSurvivesApproval ==
    [][\A r \in attendance :
          r.check_in_time # NULL =>
              \E n \in attendance' :
                  /\ n.id = r.id
                  /\ n.check_in_time # NULL
                  /\ \/ n.check_in_time = r.check_in_time
                     \/ n.check_in_time \in SuppliedCheckIns(r.user, r.date)]_vars

\* an approval that supplies no check-in time is about to save the record
\* as it read it, without check-in, over a check-in committed since by Mark
C28_Witness ==
    /\ decide.pc = "save"
    /\ decide.req.check_in_time = NULL
    /\ decide.att.check_in_time = NULL
    /\ \E r \in attendance :
          /\ r.id = decide.att.id
          /\ r.check_in_time # NULL /\ r.check_in_lat # NULL
          /\ ~Locked(r.id)

\* C29: every check-in or check-out written by Mark is written while the
\* presented token is still the active token of the active office: after a
\* rotation of the token, or a deactivation of the QR or the office, between
\* the validation and the write, the request records no attendance.
C29_WriteWhileTokenActive ==
    [][\A p \in Procs :
          (/\ mark[p].pc = "tx" /\ mark'[p].pc = "idle"
           /\ reply'.status \in {"CHECKED_IN", "CHECKED_OUT"})
          => mark[p].qr_token \in Validating(mark[p].office)]_vars

\* a validated Mark request in its transaction whose token was rotated away
\* since the validation
C29_Witness ==
    \E p \in Procs :
        /\ mark[p].pc = "tx"
        /\ mark[p].qr_token \in NewTokens
        /\ qrs[mark[p].office].qr_token \in NewTokens \ {mark[p].qr_token}
        /\ \A o \in Offices : mark[p].qr_token \notin Validating(o)

(***************************************************************************)
(* The claim about failed verifications.                                   *)
(***************************************************************************)
\* the answers of a Verify that fails on the code
VerifyFailures == {"OTP_NOT_FOUND", "OTP_EXPIRED", "OTP_INVALID"}

\* C30: a Verify that fails (NOT_FOUND, EXPIRED or INVALID) changes nothing:
\* the account stays unverified and inactive and the code unused; no attempt
\* is counted, so right after an INVALID attempt, as after any number of
\* them, a Verify with the digits of the latest unused code succeeds as long
\* as that code has not expired.
C30_FailedVerifyChangesNothing ==
    /\ [][(resp'.op = "verify" /\ resp'.status \in VerifyFailures)
            => /\ users' = users /\ otps' = otps /\ profiles' = profiles
               /\ ~users'[resp'.email].is_verified]_vars
    /\ [][\A e \in Users :
            (/\ resp.op = "verify" /\ resp.email = e
             /\ resp.status = "OTP_INVALID"
             /\ resp'.op = "verify" /\ resp'.email = e
             /\ \E o \in otps :
                   /\ o = LatestUnusedOtp(e)
                   /\ now <= o.expires_at
                   /\ _hash_otp(resp'.otp, o.salt) = o.otp_hash)
            => /\ resp'.status = "VERIFIED"
               /\ users'[e].is_verified /\ users'[e].is_active
               /\ LatestUnusedOtp(e) \notin otps']_vars

\* a Verify of u2 was just refused as INVALID while the code of u2 is
\* unused and has not expired, and the account is unverified and inactive
C30_Witness ==
    /\ resp.op = "verify" /\ resp.email = "u2"
    /\ resp.status = "OTP_INVALID"
    /\ ~users["u2"].is_verified /\ ~users["u2"].is_active
    /\ LatestUnusedOtp("u2") \in otps
    /\ now <= LatestUnusedOtp("u2").expires_at
    /\ now > 0

====
